---- MODULE Spec2Model ----
(***************************************************************************)
(* ghostwarden: the topology-to-kernel reconciliation engine.              *)
(*                                                                         *)
(* The module models `gwarden net apply` and `gwarden net rollback` as a   *)
(* state machine over the host (links, addresses, forwarding sysctls, nft  *)
(* tables, dnsmasq configs, the persisted rollback record) and the locals  *)
(* of the running command, together with the pure functions they call      *)
(* (validator, planner, ExecutionContext).                                 *)
(*                                                                         *)
(* Strings are TLA+ strings; Option<T> is a sequence of length 0 or 1;     *)
(* a Result is a record tagged "ok", "err" or "panic".                     *)
(***************************************************************************)
EXTENDS Integers, Sequences, FiniteSets, TLC

\* ------------------------------------------------------------------------
\* Option and Result
\* ------------------------------------------------------------------------
None == <<>>
Some(x) == <<x>>
IsSome(o) == Len(o) = 1
Unwrap(o) == o[1]

Ok(v) == [tag |-> "ok", val |-> v]
Err == [tag |-> "err"]
Panic == [tag |-> "panic"]
IsOk(r) == r.tag = "ok"

\* ------------------------------------------------------------------------
\* String helpers (str::split, str::contains, str::rfind, integer parsing)
\* ------------------------------------------------------------------------
CharAt(s, i) == SubSeq(s, i, i)

RECURSIVE SplitFrom(_, _, _, _)
SplitFrom(s, c, i, start) ==
  IF i > Len(s) THEN <<SubSeq(s, start, Len(s))>>
  ELSE IF CharAt(s, i) = c
       THEN <<SubSeq(s, start, i - 1)>> \o SplitFrom(s, c, i + 1, i + 1)
       ELSE SplitFrom(s, c, i + 1, start)

\* s.split(c).collect(): always at least one part
Split(s, c) == SplitFrom(s, c, 1, 1)

\* s.contains(sub)
Contains(s, sub) ==
  \E i \in 1..(Len(s) - Len(sub) + 1) : SubSeq(s, i, i + Len(sub) - 1) = sub

\* s.rfind(c): the last index of c, 0 when absent
RFind(s, c) ==
  LET hits == {i \in 1..Len(s) : CharAt(s, i) = c}
  IN IF hits = {} THEN 0 ELSE CHOOSE i \in hits : \A j \in hits : j <= i

DigitVal(ch) ==
  CASE ch = "0" -> 0 [] ch = "1" -> 1 [] ch = "2" -> 2 [] ch = "3" -> 3
    [] ch = "4" -> 4 [] ch = "5" -> 5 [] ch = "6" -> 6 [] ch = "7" -> 7
    [] ch = "8" -> 8 [] ch = "9" -> 9 [] OTHER -> -1

RECURSIVE DigitsValue(_, _, _, _)
\* the value of the decimal digits s[i..], -1 on a non-digit or above max
DigitsValue(s, i, acc, max) ==
  IF i > Len(s) THEN acc
  ELSE LET d == DigitVal(CharAt(s, i))
       IN IF d < 0 \/ acc * 10 + d > max THEN -1
          ELSE DigitsValue(s, i + 1, acc * 10 + d, max)

\* <unsigned>::from_str: optional leading '+', then at least one digit
ParseUnsigned(s, max) ==
  LET body == IF Len(s) > 0 /\ CharAt(s, 1) = "+" THEN SubSeq(s, 2, Len(s)) ELSE s
  IN IF Len(body) = 0 THEN -1 ELSE DigitsValue(body, 1, 0, max)

U8Max == 255
U16Max == 65535

ParseU8(s) == ParseUnsigned(s, U8Max)
ParseU16(s) == ParseUnsigned(s, U16Max)

\* one octet of a dotted quad: 1..3 digits, no sign, no leading zero
ParseOctet(s) ==
  IF Len(s) = 0 \/ Len(s) > 3 THEN -1
  ELSE IF Len(s) > 1 /\ CharAt(s, 1) = "0" THEN -1
  ELSE DigitsValue(s, 1, 0, U8Max)

\* Ipv4Addr::from_str: <<a, b, c, d>>, or <<>> when the text is no IPv4 address
ParseIpv4(s) ==
  LET octets(parts) ==
        IF Len(parts) # 4 THEN <<>>
        ELSE LET valid(o) == IF \E i \in 1..4 : o[i] < 0 THEN <<>> ELSE o
             IN valid([i \in 1..4 |-> ParseOctet(parts[i])])
  IN octets(Split(s, "."))

\* IpAddr::from_str on the inputs of this model (IPv4 text only)
ParseIpAddr(s) == ParseIpv4(s)

\* ------------------------------------------------------------------------
\* Generic sequence helpers
\* ------------------------------------------------------------------------
RECURSIVE Flatten(_)
Flatten(ss) == IF ss = <<>> THEN <<>> ELSE Head(ss) \o Flatten(Tail(ss))

SeqRange(s) == {s[i] : i \in 1..Len(s)}

\* the orders in which a HashMap with key set S may be iterated
Perms(S) == {p \in [1..Cardinality(S) -> S] : SeqRange(p) = S}

\* ------------------------------------------------------------------------
\* Topology (topology.rs)
\* ------------------------------------------------------------------------
PortForward(public, dst) == [public |-> public, dst |-> dst]

RoutedNetwork(cidr, gw_ip, dhcp, dns, masq_out, forwards, policy_profile) ==
  [type |-> "routed", cidr |-> cidr, gw_ip |-> gw_ip, dhcp |-> dhcp, dns |-> dns,
   masq_out |-> masq_out, forwards |-> forwards, policy_profile |-> policy_profile]

BridgeNetwork(iface, vlan, policy_profile) ==
  [type |-> "bridge", iface |-> iface, vlan |-> vlan, policy_profile |-> policy_profile]

DnsConfig(enabled, zones) == [enabled |-> enabled, zones |-> zones]

Topology(interfaces, networks) ==
  [version |-> 1, interfaces |-> interfaces, networks |-> networks]

\* the names of the routed networks, in iteration order
RoutedNames(topology, order) ==
  SelectSeq(order, LAMBDA n : topology.networks[n].type = "routed")

\* ------------------------------------------------------------------------
\* Validator (validator.rs)
\* ------------------------------------------------------------------------
Pow2(n) == 2 ^ n

\* The shift amount of `(!0u32) << (32 - prefix)`, prefix: u8. With overflow
\* checks (debug build) an amount outside 0..31 panics; without them (release
\* build) the u8 subtraction wraps and the shift amount is taken modulo 32.
ShiftAmount(prefix, checked) ==
  LET raw == 32 - prefix
  IN IF raw >= 0 /\ raw < 32 THEN Ok(raw)
     ELSE IF checked THEN Panic
     ELSE Ok(((raw + 256) % 256) % 32)

\* ip & ((!0u32) << e), on the four octets of ip, most significant first
AndMask(ip, e) ==
  [i \in 1..4 |->
     LET z0 == e - 8 * (4 - i)
         z == IF z0 < 0 THEN 0 ELSE IF z0 > 8 THEN 8 ELSE z0
     IN (ip[i] \div Pow2(z)) * Pow2(z)]

cidrs_overlap(cidr1, cidr2, checked) ==
  LET compare(ip1, ip2, sh1, sh2, shs) ==
        IF ~IsOk(sh1) \/ ~IsOk(sh2) \/ ~IsOk(shs) THEN Panic
        ELSE Ok(AndMask(AndMask(ip1, sh1.val), shs.val)
                = AndMask(AndMask(ip2, sh2.val), shs.val))
      masks(ip1, prefix1, ip2, prefix2) ==
        IF ip2 = <<>> \/ prefix2 < 0 THEN Err
        ELSE compare(ip1, ip2, ShiftAmount(prefix1, checked), ShiftAmount(prefix2, checked),
                     ShiftAmount(IF prefix1 < prefix2 THEN prefix1 ELSE prefix2, checked))
      second(ip1, prefix1, parts2) ==
        IF ip1 = <<>> \/ prefix1 < 0 THEN Err
        ELSE IF Len(parts2) # 2 THEN Err
        ELSE masks(ip1, prefix1, ParseIpv4(parts2[1]), ParseU8(parts2[2]))
      first(parts1, parts2) ==
        IF Len(parts1) # 2 THEN Err
        ELSE second(ParseIpv4(parts1[1]), ParseU8(parts1[2]), parts2)
  IN first(Split(cidr1, "/"), Split(cidr2, "/"))

RECURSIVE PairSeq(_, _, _)
\* the index pairs (i, j), i < j <= n, in the order of the nested loops
PairSeq(i, j, n) ==
  IF i >= n THEN <<>>
  ELSE IF j > n THEN PairSeq(i + 1, i + 2, n)
  ELSE <<<<i, j>>>> \o PairSeq(i, j + 1, n)

check_cidr_overlaps(topology, order, checked) ==
  LET warnings(cidrs, pairs, res, bad) ==
        IF bad # {} THEN res[CHOOSE k \in bad : \A m \in bad : k <= m]
        ELSE Ok(Flatten([k \in 1..Len(pairs) |->
               IF res[k].val
               THEN <<[kind |-> "CidrOverlap", net1 |-> cidrs[pairs[k][1]],
                       net2 |-> cidrs[pairs[k][2]]]>>
               ELSE <<>>]))
      checks(cidrs, pairs, res) ==
        warnings(cidrs, pairs, res, {k \in 1..Len(pairs) : ~IsOk(res[k])})
      loops(cidrs, pairs) ==
        checks(cidrs, pairs,
               [k \in 1..Len(pairs) |->
                  cidrs_overlap(topology.networks[cidrs[pairs[k][1]]].cidr,
                                topology.networks[cidrs[pairs[k][2]]].cidr, checked)])
      collected(cidrs) == loops(cidrs, PairSeq(1, 2, Len(cidrs)))
  IN collected(RoutedNames(topology, order))

validate_port_spec(spec) ==
  LET protocol(proto) ==
        IF proto # "tcp" /\ proto # "udp" /\ proto # "sctp" THEN Err ELSE Ok(TRUE)
      checked_port(port) ==
        IF port < 0 THEN Err
        ELSE IF port = 0 THEN Err
        ELSE IF Contains(spec, "/") THEN protocol(Split(spec, "/")[2])
        ELSE Ok(TRUE)
      last(segs) == segs[Len(segs)]
  IN checked_port(ParseU16(last(Split(Split(spec, "/")[1], ":"))))

validate_destination(spec) ==
  LET checked_port(port) == IF port < 0 THEN Err ELSE IF port = 0 THEN Err ELSE Ok(TRUE)
      parsed(segs) ==
        IF Len(segs) # 2 THEN Err
        ELSE IF ParseIpAddr(segs[1]) = <<>> THEN Err
        ELSE checked_port(ParseU16(segs[2]))
  IN parsed(Split(spec, ":"))

validate_port_ranges(topology, order) ==
  LET names == RoutedNames(topology, order)
      perForward(n, f) ==
        (IF IsOk(validate_port_spec(f.public)) THEN <<>>
         ELSE <<[kind |-> "InvalidPort", network |-> n]>>)
        \o (IF IsOk(validate_destination(f.dst)) THEN <<>>
            ELSE <<[kind |-> "InvalidDestination", network |-> n]>>)
      perNet(n) ==
        LET fw == topology.networks[n].forwards
        IN Flatten([k \in 1..Len(fw) |-> perForward(n, fw[k])])
  IN Flatten([k \in 1..Len(names) |-> perNet(names[k])])

validate_cidr(cidr) ==
  LET checked_prefix(prefix) ==
        IF prefix < 0 THEN Err ELSE IF prefix > 32 THEN Err ELSE Ok(TRUE)
      parsed(parts) ==
        IF Len(parts) # 2 THEN Err
        ELSE IF ParseIpAddr(parts[1]) = <<>> THEN Err
        ELSE checked_prefix(ParseU8(parts[2]))
  IN parsed(Split(cidr, "/"))

validate_gateway_in_cidr(gateway, cidr, checked) ==
  LET compare(gw_ip, net_ip, sh) ==
        IF ~IsOk(sh) THEN Panic
        ELSE IF AndMask(net_ip, sh.val) # AndMask(gw_ip, sh.val) THEN Err
        ELSE Ok(TRUE)
      masked(gw_ip, net_ip, prefix) ==
        IF net_ip = <<>> \/ prefix < 0 THEN Err
        ELSE compare(gw_ip, net_ip, ShiftAmount(prefix, checked))
      parsed(gw_ip, parts) ==
        IF gw_ip = <<>> THEN Err
        ELSE IF Len(parts) # 2 THEN Err
        ELSE masked(gw_ip, ParseIpv4(parts[1]), ParseU8(parts[2]))
  IN parsed(ParseIpv4(gateway), Split(cidr, "/"))

validate_ip_addresses(topology, order, checked) ==
  LET warnings(names, gw) ==
        IF \E k \in 1..Len(names) : gw[k].tag = "panic" THEN Panic
        ELSE Ok(Flatten([k \in 1..Len(names) |->
               (IF IsOk(validate_cidr(topology.networks[names[k]].cidr)) THEN <<>>
                ELSE <<[kind |-> "InvalidCidr", network |-> names[k]]>>)
               \o (IF gw[k].tag = "err"
                   THEN <<[kind |-> "GatewayNotInCidr", network |-> names[k]]>>
                   ELSE <<>>)]))
      routed(names) ==
        warnings(names,
                 [k \in 1..Len(names) |->
                    validate_gateway_in_cidr(topology.networks[names[k]].gw_ip,
                                             topology.networks[names[k]].cidr, checked)])
  IN routed(RoutedNames(topology, order))

check_naming_conflicts(topology, order) ==
  LET bridges == SelectSeq(order, LAMBDA n : topology.networks[n].type = "bridge")
      seenBefore(k) == \E m \in 1..(k - 1) :
                         topology.networks[bridges[m]].iface = topology.networks[bridges[k]].iface
  IN Flatten([k \in 1..Len(bridges) |->
       IF seenBefore(k)
       THEN <<[kind |-> "DuplicateInterfaceName", network |-> bridges[k]]>>
       ELSE <<>>])

\* TopologyValidator::validate: Ok(warnings), Err (a `?` of check_cidr_overlaps)
\* or Panic (an arithmetic overflow under overflow checks)
validate(topology, order, checked) ==
  LET extend(overlaps, ips) ==
        IF ~IsOk(overlaps) THEN overlaps
        ELSE IF ~IsOk(ips) THEN ips
        ELSE Ok(overlaps.val \o validate_port_ranges(topology, order)
                \o ips.val \o check_naming_conflicts(topology, order))
  IN extend(check_cidr_overlaps(topology, order, checked),
            validate_ip_addresses(topology, order, checked))

\* a classification in which every warning is advisory, which C8 excludes
every_warning_advisory(warning) == FALSE

is_error(warning) ==
  warning.kind \in {"InvalidPort", "InvalidDestination", "InvalidCidr", "GatewayNotInCidr"}

\* ------------------------------------------------------------------------
\* More string helpers (format!("{}", n), trim, to_ascii_lowercase)
\* ------------------------------------------------------------------------
DigitStr(d) == SubSeq("0123456789", d + 1, d + 1)

RECURSIVE IntToStr(_)
IntToStr(n) == IF n < 10 THEN DigitStr(n) ELSE IntToStr(n \div 10) \o DigitStr(n % 10)

RECURSIVE TrimStart(_)
TrimStart(s) == IF Len(s) > 0 /\ CharAt(s, 1) = " " THEN TrimStart(SubSeq(s, 2, Len(s))) ELSE s

RECURSIVE TrimEnd(_)
TrimEnd(s) ==
  IF Len(s) > 0 /\ CharAt(s, Len(s)) = " " THEN TrimEnd(SubSeq(s, 1, Len(s) - 1)) ELSE s

Trim(s) == TrimEnd(TrimStart(s))

LowerChar(ch) ==
  LET upper == "ABCDEFGHIJKLMNOPQRSTUVWXYZ"
      lower == "abcdefghijklmnopqrstuvwxyz"
      hits == {i \in 1..26 : CharAt(upper, i) = ch}
  IN IF hits = {} THEN ch ELSE CharAt(lower, CHOOSE i \in hits : TRUE)

RECURSIVE ToLower(_)
ToLower(s) == IF Len(s) = 0 THEN "" ELSE LowerChar(CharAt(s, 1)) \o ToLower(SubSeq(s, 2, Len(s)))

\* ------------------------------------------------------------------------
\* Planner (planner.rs)
\* ------------------------------------------------------------------------
CreateBridge(name, cidr) == [kind |-> "CreateBridge", name |-> name, cidr |-> cidr]
\* an AddAddress that names the uplink instead of the bridge, which C14 excludes
AddAddressOnUplink(iface, addr) == [kind |-> "AddAddress", iface |-> "eth0", addr |-> addr]
AddAddress(iface, addr) == [kind |-> "AddAddress", iface |-> iface, addr |-> addr]
EnableForwarding(iface) == [kind |-> "EnableForwarding", iface |-> iface]
CreateNftRuleset(table, policy_profile) ==
  [kind |-> "CreateNftRuleset", table |-> table, policy_profile |-> policy_profile]
StartDnsmasq(config_path) == [kind |-> "StartDnsmasq", config_path |-> config_path]
CreateVlan(parent, vlan_id, name) ==
  [kind |-> "CreateVlan", parent |-> parent, vlan_id |-> vlan_id, name |-> name]
AttachVlanToBridge(vlan, bridge) ==
  [kind |-> "AttachVlanToBridge", vlan |-> vlan, bridge |-> bridge]

\* the actions Plan::from_topology pushes for one network
NetworkActions(topology, net_name) ==
  LET network == topology.networks[net_name]
  IN CASE network.type = "routed" ->
            <<CreateBridge("br-" \o net_name, Some(network.cidr)),
              AddAddress("br-" \o net_name, network.cidr),
              EnableForwarding("br-" \o net_name),
              CreateNftRuleset("gw-" \o net_name, network.policy_profile)>>
            \o (IF network.dhcp
                THEN <<StartDnsmasq("/etc/dnsmasq.d/gw-" \o net_name \o ".conf")>>
                ELSE <<>>)
       [] network.type = "bridge" ->
            (IF IsSome(network.vlan) /\ "uplink" \in DOMAIN topology.interfaces
             THEN LET uplink == topology.interfaces["uplink"]
                      vlan_name == uplink \o "." \o IntToStr(Unwrap(network.vlan))
                  IN <<CreateVlan(uplink, Unwrap(network.vlan), vlan_name),
                       AttachVlanToBridge(vlan_name, network.iface)>>
             ELSE <<>>)
            \o <<CreateBridge(network.iface, None)>>
       [] OTHER -> <<>>

\* Plan::from_topology: the plan's actions, networks taken in iteration order
from_topology(topology, order) ==
  Flatten([k \in 1..Len(order) |-> NetworkActions(topology, order[k])])

\* nft_config_for_table: Option<NftConfig>; find_map stops at the first network
\* for which the closure yields Some
nft_config_for_table(topology, order, table_name) ==
  LET hits == {k \in 1..Len(order) :
                 /\ topology.networks[order[k]].type = "routed"
                 /\ "gw-" \o order[k] = table_name
                 /\ IsSome(topology.networks[order[k]].masq_out)}
  IN IF hits = {} THEN None
     ELSE LET name == order[CHOOSE k \in hits : \A m \in hits : k <= m]
              routed == topology.networks[name]
          IN Some([network_name |-> name,
                   cidr |-> routed.cidr,
                   gateway_ip |-> routed.gw_ip,
                   masq_iface |-> Unwrap(routed.masq_out),
                   forwards |-> routed.forwards,
                   policy_profile |-> routed.policy_profile])

\* ------------------------------------------------------------------------
\* ExecutionContext and RollbackRecord (executor.rs, rollback.rs)
\* ------------------------------------------------------------------------
\* nft_snapshots is a map: a function whose domain is the set of recorded tables
ExecutionContext_new ==
  [actions_completed |-> <<>>, rollback_enabled |-> TRUE,
   nft_snapshots |-> <<>>, plan |-> None]

record_action(ctx, action) ==
  [ctx EXCEPT !.actions_completed = Append(@, action)]

attach_plan(ctx, plan) == [ctx EXCEPT !.plan = Some(plan)]

MapInsert(m, k, v) == [x \in (DOMAIN m) \cup {k} |-> IF x = k THEN v ELSE m[x]]

\* a context that keeps no snapshot, which C23 excludes
record_no_snapshot(ctx, table, snapshot) == ctx

record_nft_snapshot(ctx, table, snapshot) ==
  [ctx EXCEPT !.nft_snapshots = MapInsert(@, table, snapshot)]

\* self.nft_snapshot(table).cloned().unwrap_or(None)
nft_snapshot_or_none(ctx, table) ==
  IF table \in DOMAIN ctx.nft_snapshots THEN ctx.nft_snapshots[table] ELSE None

DeleteBridge(name) == [op |-> "DeleteBridge", name |-> name]
RemoveAddress(iface, addr) == [op |-> "RemoveAddress", iface |-> iface, addr |-> addr]
RestoreNft(table, snapshot) == [op |-> "RestoreNft", table |-> table, snapshot |-> snapshot]
DeleteDnsmasqConfig(path) == [op |-> "DeleteDnsmasqConfig", path |-> path]
DeleteVlan(name) == [op |-> "DeleteVlan", name |-> name]

\* the ops the match arm of rollback_operations pushes for one action
RollbackOpsOf(ctx, action) ==
  CASE action.kind = "CreateBridge" -> <<DeleteBridge(action.name)>>
    [] action.kind = "AddAddress" -> <<RemoveAddress(action.iface, action.addr)>>
    [] action.kind = "CreateNftRuleset" ->
         <<RestoreNft(action.table, nft_snapshot_or_none(ctx, action.table))>>
    [] action.kind = "StartDnsmasq" -> <<DeleteDnsmasqConfig(action.config_path)>>
    [] action.kind = "CreateVlan" -> <<DeleteVlan(action.name)>>
    [] OTHER -> <<>>

RECURSIVE RollbackOpsForward(_, _)
\* a walk of actions_completed from first to last, the order C3 excludes
RollbackOpsForward(ctx, i) ==
  IF i = 0 THEN <<>>
  ELSE RollbackOpsForward(ctx, i - 1) \o RollbackOpsOf(ctx, ctx.actions_completed[i])

RECURSIVE RollbackOpsFrom(_, _)
\* the loop over actions_completed.iter().rev(), from position i down to 1
RollbackOpsFrom(ctx, i) ==
  IF i = 0 THEN <<>>
  ELSE RollbackOpsOf(ctx, ctx.actions_completed[i]) \o RollbackOpsFrom(ctx, i - 1)

rollback_operations(ctx) == RollbackOpsFrom(ctx, Len(ctx.actions_completed))

RollbackRecord_new(created_at, plan, actions, nft_snapshots) ==
  [created_at |-> created_at, plan |-> plan, actions |-> actions,
   nft_snapshots |-> nft_snapshots]

to_rollback_record(ctx, now) ==
  RollbackRecord_new(now, ctx.plan, ctx.actions_completed, ctx.nft_snapshots)

from_rollback_record(record) ==
  [actions_completed |-> record.actions, rollback_enabled |-> TRUE,
   nft_snapshots |-> record.nft_snapshots, plan |-> record.plan]

\* ------------------------------------------------------------------------
\* The record on disk (rollback.rs: serde_json over the derived
\* Serialize / Deserialize of RollbackRecord, Plan and Action)
\* ------------------------------------------------------------------------
\* a JSON value: j is "null", "string", "number", "array" or "object"; an
\* object's v is a function from its keys to JSON values
Json(j, v) == [j |-> j, v |-> v]

\* an encoding of Option<String> in which None is the empty string, which C11
\* excludes
OptionAsEmptyString(o) == Json("string", IF IsSome(o) THEN Unwrap(o) ELSE "")

\* Serialize for Option<String>: None is null, Some(s) the string s
OptionToJson(o) == IF IsSome(o) THEN Json("string", Unwrap(o)) ELSE Json("null", <<>>)

\* the JSON document save_record writes: structs are objects keyed by field
\* name, an enum variant is an object with the variant's name as its only key
save_record(record) ==
  LET str(s) == Json("string", s)
      variant(name, fields) == Json("object", [k \in {name} |-> Json("object", fields)])
      action(a) ==
        CASE a.kind = "CreateBridge" ->
               variant(a.kind, [name |-> str(a.name), cidr |-> OptionToJson(a.cidr)])
          [] a.kind = "AddAddress" ->
               variant(a.kind, [iface |-> str(a.iface), addr |-> str(a.addr)])
          [] a.kind = "EnableForwarding" -> variant(a.kind, [iface |-> str(a.iface)])
          [] a.kind = "CreateNftRuleset" ->
               variant(a.kind, [table |-> str(a.table),
                                policy_profile |-> OptionToJson(a.policy_profile)])
          [] a.kind = "StartDnsmasq" ->
               variant(a.kind, [config_path |-> str(a.config_path)])
          [] a.kind = "CreateVlan" ->
               variant(a.kind, [parent |-> str(a.parent),
                                vlan_id |-> Json("number", a.vlan_id),
                                name |-> str(a.name)])
          [] a.kind = "AttachVlanToBridge" ->
               variant(a.kind, [vlan |-> str(a.vlan), bridge |-> str(a.bridge)])
      actions(seq) == Json("array", [k \in 1..Len(seq) |-> action(seq[k])])
  IN Json("object",
          [created_at |-> Json("number", record.created_at),
           plan |-> IF IsSome(record.plan)
                    THEN Json("object", [actions |-> actions(Unwrap(record.plan))])
                    ELSE Json("null", <<>>),
           actions |-> actions(record.actions),
           nft_snapshots |->
             Json("object", [t \in DOMAIN record.nft_snapshots |->
                               OptionToJson(record.nft_snapshots[t])])])

\* load_record: Ok(None) when the file is absent, else the document read into
\* a RollbackRecord. A missing or ill-typed field is an error, except that an
\* Option field may be missing or null; a key that names no field is skipped.
load_record(file) ==
  LET has(fields, name, type) == name \in DOMAIN fields /\ fields[name].j = type
      string(fields, name) == IF has(fields, name, "string") THEN Ok(fields[name].v) ELSE Err
      option(fields, name) ==
        IF name \notin DOMAIN fields \/ fields[name].j = "null" THEN Ok(None)
        ELSE IF fields[name].j = "string" THEN Ok(Some(fields[name].v)) ELSE Err
      \* an unsigned integer; max = 0 stands for u64, whose range the model
      \* never leaves
      number(fields, name, max) ==
        IF has(fields, name, "number") /\ fields[name].v >= 0
           /\ (max = 0 \/ fields[name].v <= max)
        THEN Ok(fields[name].v) ELSE Err
      build1(a, Make(_)) == IF IsOk(a) THEN Ok(Make(a.val)) ELSE Err
      build2(a, b, Make(_, _)) == IF IsOk(a) /\ IsOk(b) THEN Ok(Make(a.val, b.val)) ELSE Err
      build3(a, b, c, Make(_, _, _)) ==
        IF IsOk(a) /\ IsOk(b) /\ IsOk(c) THEN Ok(Make(a.val, b.val, c.val)) ELSE Err
      fields_of(kind, f) ==
        CASE kind = "CreateBridge" -> build2(string(f, "name"), option(f, "cidr"), CreateBridge)
          [] kind = "AddAddress" -> build2(string(f, "iface"), string(f, "addr"), AddAddress)
          [] kind = "EnableForwarding" -> build1(string(f, "iface"), EnableForwarding)
          [] kind = "CreateNftRuleset" ->
               build2(string(f, "table"), option(f, "policy_profile"), CreateNftRuleset)
          [] kind = "StartDnsmasq" -> build1(string(f, "config_path"), StartDnsmasq)
          [] kind = "CreateVlan" ->
               build3(string(f, "parent"), number(f, "vlan_id", U16Max), string(f, "name"),
                      CreateVlan)
          [] kind = "AttachVlanToBridge" ->
               build2(string(f, "vlan"), string(f, "bridge"), AttachVlanToBridge)
          [] OTHER -> Err
      variant_of(kind, body) == IF body.j = "object" THEN fields_of(kind, body.v) ELSE Err
      action(doc) ==
        IF doc.j = "object" /\ Cardinality(DOMAIN doc.v) = 1
        THEN variant_of(CHOOSE k \in DOMAIN doc.v : TRUE, doc.v[CHOOSE k \in DOMAIN doc.v : TRUE])
        ELSE Err
      collect(parsed) ==
        IF \A k \in 1..Len(parsed) : IsOk(parsed[k])
        THEN Ok([k \in 1..Len(parsed) |-> parsed[k].val]) ELSE Err
      actions(fields, name) ==
        IF has(fields, name, "array")
        THEN collect([k \in 1..Len(fields[name].v) |-> action(fields[name].v[k])])
        ELSE Err
      plan(fields, name) ==
        IF name \notin DOMAIN fields \/ fields[name].j = "null" THEN Ok(None)
        ELSE IF fields[name].j = "object"
             THEN build1(actions(fields[name].v, "actions"), Some)
             ELSE Err
      snapshots(fields, name) ==
        IF has(fields, name, "object")
           /\ \A t \in DOMAIN fields[name].v : fields[name].v[t].j \in {"null", "string"}
        THEN Ok([t \in DOMAIN fields[name].v |-> option(fields[name].v, t).val])
        ELSE Err
      record(created_at, p, a, s) ==
        IF IsOk(created_at) /\ IsOk(p) /\ IsOk(a) /\ IsOk(s)
        THEN Ok(Some(RollbackRecord_new(created_at.val, p.val, a.val, s.val)))
        ELSE Err
      document(doc) ==
        IF doc.j = "object"
        THEN record(number(doc.v, "created_at", 0), plan(doc.v, "plan"),
                    actions(doc.v, "actions"), snapshots(doc.v, "nft_snapshots"))
        ELSE Err
  IN IF file = None THEN Ok(None) ELSE document(Unwrap(file))

\* ------------------------------------------------------------------------
\* Conflict detection (detector.rs, conflict.rs)
\* ------------------------------------------------------------------------
Conflict(service, severity) == [service |-> service, severity |-> severity]

\* detect_all: the probes in source order; `active` is the set of services
\* whose probe reports them active (a probe that fails reports nothing)
detect_all(active) ==
  (IF "NetworkManager" \in active THEN <<Conflict("NetworkManager", "Warning")>> ELSE <<>>)
  \o (IF "Docker" \in active THEN <<Conflict("Docker", "Info")>> ELSE <<>>)
  \o (IF "UFW" \in active THEN <<Conflict("UFW", "Error")>> ELSE <<>>)
  \o (IF "firewalld" \in active THEN <<Conflict("firewalld", "Error")>> ELSE <<>>)
  \o (IF "iptables" \in active THEN <<Conflict("iptables", "Warning")>> ELSE <<>>)

has_errors(report) == \E k \in 1..Len(report) : report[k].severity = "Error"

\* ------------------------------------------------------------------------
\* Ruleset generation (main.rs generate_ruleset, ruleset.rs)
\* ------------------------------------------------------------------------
\* IpNet::from_str: [addr, len], or <<>> when the text is no IPv4 network
ParseIpNet(s) ==
  LET net(addr, len) ==
        IF addr = <<>> \/ len < 0 THEN <<>> ELSE [addr |-> addr, len |-> len]
      parsed(parts) ==
        IF Len(parts) # 2 THEN <<>>
        ELSE net(ParseIpv4(parts[1]),
                 IF Len(parts[2]) = 0 THEN -1 ELSE DigitsValue(parts[2], 1, 0, 32))
  IN parsed(Split(s, "/"))

ForwardProtocol_from_str(proto) ==
  LET p == ToLower(proto)
  IN IF p \in {"tcp", "udp", "icmp"} THEN Ok(p) ELSE Err

split_proto(spec) ==
  LET at(idx) ==
        IF idx = 0 THEN Err
        ELSE IF idx = Len(spec) THEN Err
        ELSE Ok([addr_part |-> SubSeq(spec, 1, idx - 1),
                 proto |-> SubSeq(spec, idx + 1, Len(spec))])
  IN at(RFind(spec, "/"))

split_host_port(addr_part) ==
  LET with_ip(ip, port) ==
        IF ip = <<>> THEN Err ELSE Ok([addr |-> Some(ip), port |-> port])
      parsed(host, port) ==
        IF port < 0 THEN Err
        ELSE IF Len(host) = 0 \/ host = "0.0.0.0" THEN Ok([addr |-> None, port |-> port])
        ELSE with_ip(ParseIpAddr(host), port)
      at(trimmed, idx) ==
        parsed(Trim(IF idx > 0 THEN SubSeq(trimmed, 1, idx - 1) ELSE ""),
               ParseU16(IF idx > 0 THEN SubSeq(trimmed, idx + 1, Len(trimmed))
                        ELSE trimmed))
      scan(trimmed) == at(trimmed, RFind(trimmed, ":"))
  IN scan(Trim(addr_part))

split_destination(dest) ==
  LET parsed(ip, port) ==
        IF ip = <<>> THEN Err
        ELSE IF port < 0 THEN Err
        ELSE Ok([addr |-> ip, port |-> port])
      at(trimmed, idx) ==
        IF idx = 0 THEN Err
        ELSE parsed(ParseIpAddr(SubSeq(trimmed, 1, idx - 1)),
                    ParseU16(SubSeq(trimmed, idx + 1, Len(trimmed))))
      scan(trimmed) == at(trimmed, RFind(trimmed, ":"))
  IN scan(Trim(dest))

ForwardRule_parse(public, dest) ==
  LET rule(protocol, hp, dst) ==
        IF ~IsOk(hp) THEN Err
        ELSE IF ~IsOk(dst) THEN Err
        ELSE Ok([public_addr |-> hp.val.addr, public_port |-> hp.val.port,
                 protocol |-> protocol,
                 dest_addr |-> dst.val.addr, dest_port |-> dst.val.port])
      with_protocol(sp, protocol) ==
        IF ~IsOk(protocol) THEN Err
        ELSE IF protocol.val = "icmp" THEN Err
        ELSE rule(protocol.val, split_host_port(sp.val.addr_part), split_destination(dest))
      with_proto(sp) ==
        IF ~IsOk(sp) THEN Err
        ELSE with_protocol(sp, ForwardProtocol_from_str(sp.val.proto))
  IN with_proto(split_proto(public))

\* forward rules taken last to first, which C16 excludes
forwards_in_reverse(entries) ==
  LET res == [k \in 1..Len(entries) |->
                ForwardRule_parse(entries[Len(entries) + 1 - k].public,
                                  entries[Len(entries) + 1 - k].dst)]
  IN IF \E k \in 1..Len(entries) : ~IsOk(res[k]) THEN Err
     ELSE Ok([k \in 1..Len(entries) |-> res[k].val])

parse_forward_rules(entries) ==
  LET collect(res) ==
        IF \E k \in 1..Len(entries) : ~IsOk(res[k]) THEN Err
        ELSE Ok([k \in 1..Len(entries) |-> res[k].val])
  IN collect([k \in 1..Len(entries) |->
                ForwardRule_parse(entries[k].public, entries[k].dst)])

\* a base-chain policy that is the profile's default_action by name, which C17
\* excludes
policy_as_named(policy) ==
  IF IsSome(policy) THEN Unwrap(policy).default_action ELSE "accept"

\* the base-chain policy of input and forward
default_policy_of(policy) ==
  IF IsSome(policy)
  THEN (IF Unwrap(policy).default_action = "accept" THEN "accept" ELSE "drop")
  ELSE "accept"

\* create_complete_ruleset: the ruleset text for one table, a JSON document
\* {"nftables": [statements]} in pretty layout
create_complete_ruleset(table_name, bridge_name, bridge_cidr, gateway_ip, masq_iface, forwards, policy) ==
  LET str(s) == Json("string", s)
      num(n) == Json("number", n)
      obj(fields) == Json("object", fields)
      arr(items) == Json("array", items)
      ip_text(ip) ==
        IntToStr(ip[1]) \o "." \o IntToStr(ip[2]) \o "." \o IntToStr(ip[3]) \o "."
          \o IntToStr(ip[4])
      \* base_table_definition
      base_table_definition ==
        <<obj([flush |-> obj([table |-> obj([family |-> str("inet"),
                                             name |-> str(table_name)])])]),
          obj([table |-> obj([family |-> str("inet"), name |-> str(table_name)])])>>
      \* base_filter_chain, base_output_chain, base_nat_chains
      base_chain(name, type, prio, chain_policy) ==
        obj([chain |-> obj([family |-> str("inet"), table |-> str(table_name),
                            name |-> str(name), type |-> str(type), hook |-> str(name),
                            prio |-> num(prio), policy |-> str(chain_policy)])])
      base_filter_chain(default_policy) ==
        <<base_chain("input", "filter", 0, default_policy),
          base_chain("forward", "filter", 0, default_policy)>>
      base_output_chain == <<base_chain("output", "filter", 0, "accept")>>
      base_nat_chains ==
        <<base_chain("postrouting", "nat", 100, "accept"),
          base_chain("prerouting", "nat", -100, "accept")>>
      \* the expression builders
      rule_in(chain_name, expr) ==
        obj([rule |-> obj([family |-> str("inet"), table |-> str(table_name),
                           chain |-> str(chain_name), expr |-> arr(expr)])])
      match_expr(left, op, right) ==
        obj([match |-> obj([left |-> left, op |-> str(op), right |-> right])])
      payload(proto, field) ==
        obj([payload |-> obj([protocol |-> str(proto), field |-> str(field)])])
      match_iface(key, iface) ==
        match_expr(obj([meta |-> obj([key |-> str(key)])]), "==", str(iface))
      match_l4proto(proto) ==
        match_expr(obj([meta |-> obj([key |-> str("l4proto")])]), "==", str(proto))
      match_port(proto, field, port) == match_expr(payload(proto, field), "==", num(port))
      match_ip_addr_expr(field, ip) ==
        match_expr(payload("ip", field), "==", str(ip_text(ip)))
      match_ip_prefix_expr(field, net) ==
        match_expr(payload("ip", field), "==",
                   obj([prefix |-> obj([addr |-> str(ip_text(net.addr)),
                                        len |-> num(net.len)])]))
      accept_expr == obj([accept |-> Json("null", <<>>)])
      ct_state_accept_rule(chain_name) ==
        rule_in(chain_name,
                <<match_expr(obj([ct |-> obj([key |-> str("state")])]), "in",
                             arr(<<str("established"), str("related")>>)),
                  accept_expr>>)
      stateful_allow_rules == <<ct_state_accept_rule("input"), ct_state_accept_rule("forward")>>
      loopback_rule == rule_in("input", <<match_iface("iifname", "lo"), accept_expr>>)
      \* policy_service_rules, policy_ingress_rules, policy_egress_rules
      service_rule(service) ==
        rule_in("input",
                <<match_iface("iifname", bridge_name)>>
                \o (IF service.protocol = "icmp" THEN <<match_l4proto("icmp")>>
                    ELSE <<match_l4proto(service.protocol),
                           match_port(service.protocol, "dport", service.port)>>)
                \o (IF IsSome(service.source)
                    THEN <<match_ip_prefix_expr("saddr", ParseIpNet(Unwrap(service.source)))>>
                    ELSE <<>>)
                \o <<accept_expr>>)
      cidr_rule(chain_name, field, cidr) ==
        rule_in(chain_name, <<match_iface("iifname", bridge_name),
                              match_ip_prefix_expr(field, ParseIpNet(cidr)), accept_expr>>)
      policy_rules(p) ==
        [k \in 1..Len(p.services) |-> service_rule(p.services[k])]
        \o [k \in 1..Len(p.allowed_ingress_cidrs) |->
              cidr_rule("input", "saddr", p.allowed_ingress_cidrs[k])]
        \o [k \in 1..Len(p.allowed_egress_cidrs) |->
              cidr_rule("forward", "daddr", p.allowed_egress_cidrs[k])]
      policy_parses(p) ==
        /\ \A k \in 1..Len(p.services) :
             IsSome(p.services[k].source) => ParseIpNet(Unwrap(p.services[k].source)) # <<>>
        /\ \A k \in 1..Len(p.allowed_ingress_cidrs) :
             ParseIpNet(p.allowed_ingress_cidrs[k]) # <<>>
        /\ \A k \in 1..Len(p.allowed_egress_cidrs) :
             ParseIpNet(p.allowed_egress_cidrs[k]) # <<>>
      \* build_nat_rules
      dnat_rule(forward) ==
        rule_in("prerouting",
                <<match_iface("iifname", masq_iface), match_l4proto(forward.protocol),
                  match_port(forward.protocol, "dport", forward.public_port)>>
                \o (IF IsSome(forward.public_addr)
                    THEN <<match_ip_addr_expr("daddr", Unwrap(forward.public_addr))>>
                    ELSE <<>>)
                \o <<obj([dnat |-> obj([addr |-> str(ip_text(forward.dest_addr)),
                                        port |-> num(forward.dest_port)])])>>)
      hairpin_rule(forward, bridge_net, gateway) ==
        rule_in("postrouting",
                <<match_iface("iifname", bridge_name), match_iface("oifname", bridge_name),
                  match_l4proto(forward.protocol),
                  match_port(forward.protocol, "dport", forward.dest_port),
                  match_ip_prefix_expr("saddr", bridge_net),
                  match_ip_addr_expr("daddr", forward.dest_addr),
                  obj([snat |-> obj([addr |-> str(ip_text(gateway))])])>>)
      build_nat_rules(bridge_net, gateway, parsed) ==
        (IF masq_iface # ""
         THEN <<rule_in("postrouting",
                        <<match_iface("oifname", masq_iface),
                          match_ip_prefix_expr("saddr", bridge_net),
                          obj([masquerade |-> Json("null", <<>>)])>>)>>
         ELSE <<>>)
        \o Flatten([k \in 1..Len(parsed) |->
                      <<dnat_rule(parsed[k]), hairpin_rule(parsed[k], bridge_net, gateway)>>])
      document(bridge_net, gateway, parsed_forwards) ==
        IF bridge_net = <<>> THEN Err
        ELSE IF gateway = <<>> THEN Err
        ELSE IF ~IsOk(parsed_forwards) THEN Err
        ELSE IF IsSome(policy) /\ ~policy_parses(Unwrap(policy)) THEN Err
        ELSE Ok([layout |-> "pretty",
                 value |->
                   obj([nftables |->
                          arr(base_table_definition
                              \o base_filter_chain(default_policy_of(policy))
                              \o base_output_chain
                              \o base_nat_chains
                              \o stateful_allow_rules
                              \o <<loopback_rule>>
                              \o (IF IsSome(policy) THEN policy_rules(Unwrap(policy))
                                  ELSE <<>>)
                              \o build_nat_rules(bridge_net, gateway,
                                                 parsed_forwards.val))])])
  IN document(ParseIpNet(bridge_cidr), ParseIpAddr(gateway_ip),
              parse_forward_rules(forwards))

\* a generation that fails on a profile that is not loaded, which C22 excludes
generate_ruleset_strict(topology, order, table, profiles) ==
  LET generated(c, ruleset) ==
        IF ~IsOk(ruleset) THEN Err
        ELSE Ok(Some([network |-> c.network_name, ruleset |-> ruleset.val,
                      policy_loaded |-> c.policy_profile, policy_missing |-> None]))
      strict(c) ==
        IF IsSome(c.policy_profile) /\ Unwrap(c.policy_profile) \notin DOMAIN profiles
        THEN Err
        ELSE generated(c, create_complete_ruleset(
                            table, "br-" \o c.network_name, c.cidr, c.gateway_ip,
                            c.masq_iface, c.forwards,
                            IF IsSome(c.policy_profile)
                            THEN Some(profiles[Unwrap(c.policy_profile)]) ELSE None))
      with_config(config) == IF config = None THEN Ok(None) ELSE strict(Unwrap(config))
  IN with_config(nft_config_for_table(topology, order, table))

\* generate_ruleset: Ok(None) when the table has no NftConfig, Ok(Some(generated)),
\* or Err when create_complete_ruleset fails
generate_ruleset(topology, order, table, profiles) ==
  LET generated(c, named, found, ruleset) ==
        IF ~IsOk(ruleset) THEN Err
        ELSE Ok(Some([network |-> c.network_name,
                      ruleset |-> ruleset.val,
                      policy_loaded |-> IF found THEN c.policy_profile ELSE None,
                      policy_missing |-> IF named /\ ~found THEN c.policy_profile
                                         ELSE None]))
      with_policy(c, named, found) ==
        generated(c, named, found,
                  create_complete_ruleset(
                    table, "br-" \o c.network_name, c.cidr, c.gateway_ip, c.masq_iface,
                    c.forwards,
                    IF found THEN Some(profiles[Unwrap(c.policy_profile)]) ELSE None))
      with_config(config) ==
        IF config = None THEN Ok(None)
        ELSE with_policy(Unwrap(config), IsSome(Unwrap(config).policy_profile),
                         /\ IsSome(Unwrap(config).policy_profile)
                         /\ Unwrap(Unwrap(config).policy_profile) \in DOMAIN profiles)
  IN with_config(nft_config_for_table(topology, order, table))

\* ------------------------------------------------------------------------
\* Helpers of apply_network_config (main.rs) and dnsmasq config (dnsmasq.rs)
\* ------------------------------------------------------------------------
\* extract_gateway_ip: the gateway of the first routed network whose cidr string
\* equals `cidr`, with the prefix of `cidr`
extract_gateway_ip(cidr, topology, order) ==
  LET hits == {k \in 1..Len(order) :
                 /\ topology.networks[order[k]].type = "routed"
                 /\ topology.networks[order[k]].cidr = cidr}
  IN IF hits = {} THEN Err
     ELSE LET routed == topology.networks[order[CHOOSE k \in hits : \A m \in hits : k <= m]]
              parts == Split(cidr, "/")
          IN IF Len(parts) < 2 THEN Panic
             ELSE Ok(routed.gw_ip \o "/" \o parts[2])

\* get_dns_config: the first network whose name occurs in config_path and which
\* is routed with dhcp set
get_dns_config(topology, order, config_path) ==
  LET hits == {k \in 1..Len(order) :
                 /\ Contains(config_path, order[k])
                 /\ topology.networks[order[k]].type = "routed"
                 /\ topology.networks[order[k]].dhcp}
  IN IF hits = {} THEN None
     ELSE LET name == order[CHOOSE k \in hits : \A m \in hits : k <= m]
              routed == topology.networks[name]
          IN Some([bridge |-> "br-" \o name,
                   cidr |-> routed.cidr,
                   zones |-> IF IsSome(routed.dns) THEN Unwrap(routed.dns).zones ELSE <<>>])

\* DnsmasqManager::generate_config: the configuration text, as its variable parts
generate_config(bridge, cidr, zones) ==
  LET text(router, base) ==
        Ok([interface |-> bridge,
            dhcp_range |-> base \o ".10," \o base \o ".250,12h",
            router |-> router,
            zones |-> zones])
      ranged(router, ip) ==
        IF ip = <<>> THEN Err
        ELSE text(router, IntToStr(ip[1]) \o "." \o IntToStr(ip[2]) \o "." \o IntToStr(ip[3]))
      parsed(parts) ==
        IF Len(parts) # 2 THEN Err
        ELSE IF ParseU8(parts[2]) < 0 THEN Err
        ELSE ranged(parts[1], ParseIpv4(parts[1]))
  IN parsed(Split(cidr, "/"))

\* ------------------------------------------------------------------------
\* The host and the capabilities acting on it (gw-nl, gw-nft, gw-dhcpdns)
\*
\* A host is [links, addrs, forwarding, controller, nft, dnsmasq]:
\*   links       the names of the kernel's links
\*   addrs       the addresses, <<iface, ip, prefix_len>>
\*   forwarding  the links whose ipv4 forwarding sysctl is 1
\*   controller  the pairs <<port, bridge>> of links attached to a bridge
\*   nft         the nft tables, name -> content
\*   dnsmasq     the files of /etc/dnsmasq.d, path -> content
\* Each capability yields [ok, host]: its result and the host it leaves.
\* ------------------------------------------------------------------------
Done(ok, host) == [ok |-> ok, host |-> host]

MapRemove(m, k) == [x \in (DOMAIN m) \ {k} |-> m[x]]

bridge_exists(host, name) == name \in host.links

\* BridgeManager::create_bridge: skipped when a link of that name exists
create_bridge(host, name) ==
  IF bridge_exists(host, name) THEN Done(TRUE, host)
  ELSE Done(TRUE, [host EXCEPT !.links = @ \cup {name}])

\* BridgeManager::delete_bridge: fails when the link is absent; deleting a link
\* takes its addresses, sysctl and attachments with it
delete_bridge(host, name) ==
  IF name \notin host.links THEN Done(FALSE, host)
  ELSE Done(TRUE, [host EXCEPT !.links = @ \ {name},
                               !.addrs = {a \in @ : a[1] # name},
                               !.forwarding = @ \ {name},
                               !.controller = {c \in @ : c[1] # name /\ c[2] # name}])

\* AddressManager::add_address: the netlink add request is exclusive, so an
\* address already present on the link is refused
add_address(host, iface, cidr) ==
  LET parts == Split(cidr, "/")
  IN IF Len(parts) # 2 THEN Done(FALSE, host)
     ELSE LET addr == ParseIpAddr(parts[1])
              prefix_len == ParseU8(parts[2])
          IN IF addr = <<>> \/ prefix_len < 0 THEN Done(FALSE, host)
             ELSE IF iface \notin host.links THEN Done(FALSE, host)
             ELSE IF <<iface, addr, prefix_len>> \in host.addrs THEN Done(FALSE, host)
             ELSE Done(TRUE, [host EXCEPT !.addrs = @ \cup {<<iface, addr, prefix_len>>}])

\* AddressManager::delete_address: an absent address is not an error
delete_address(host, iface, cidr) ==
  LET parts == Split(cidr, "/")
  IN IF Len(parts) # 2 THEN Done(FALSE, host)
     ELSE LET addr == ParseIpAddr(parts[1])
              prefix_len == ParseU8(parts[2])
          IN IF addr = <<>> \/ prefix_len < 0 THEN Done(FALSE, host)
             ELSE IF iface \notin host.links THEN Done(FALSE, host)
             ELSE Done(TRUE, [host EXCEPT !.addrs = @ \ {<<iface, addr, prefix_len>>}])

\* BridgeManager::enable_forwarding: writes the sysctl file of the link
enable_forwarding(host, name) ==
  IF name \notin host.links THEN Done(FALSE, host)
  ELSE Done(TRUE, [host EXCEPT !.forwarding = @ \cup {name}])

\* VlanManager::create_vlan
create_vlan(host, parent_iface, vlan_name) ==
  IF parent_iface \notin host.links THEN Done(FALSE, host)
  ELSE IF vlan_name \in host.links THEN Done(FALSE, host)
  ELSE Done(TRUE, [host EXCEPT !.links = @ \cup {vlan_name}])

\* VlanManager::attach_vlan_to_bridge
attach_vlan_to_bridge(host, vlan_name, bridge_name) ==
  IF vlan_name \notin host.links \/ bridge_name \notin host.links THEN Done(FALSE, host)
  ELSE Done(TRUE, [host EXCEPT !.controller =
                     {c \in @ : c[1] # vlan_name} \cup {<<vlan_name, bridge_name>>}])

\* NftManager::snapshot_table: Some(text) if the table exists, else None; the
\* text is the table's document as `nft -j list table` prints it, on one line
snapshot_table(host, table_name) ==
  IF table_name \in DOMAIN host.nft
  THEN Some([layout |-> "compact", value |-> host.nft[table_name]])
  ELSE None

\* NftManager::apply_ruleset_payload: nft reads the payload; the document
\* becomes the content of the table its first statement names
apply_ruleset_payload(host, payload) ==
  LET named(first) ==
        IF "flush" \in DOMAIN first.v THEN first.v.flush.v.table.v.name.v
        ELSE first.v.table.v.name.v
  IN Done(TRUE, [host EXCEPT !.nft = MapInsert(@, named(payload.value.v.nftables.v[1]),
                                                payload.value)])

\* NftManager::delete_table: an absent table is not an error
delete_table(host, table_name) ==
  Done(TRUE, [host EXCEPT !.nft = MapRemove(@, table_name)])

\* NftManager::restore_table_from_snapshot
restore_table_from_snapshot(host, table_name, snapshot) ==
  IF IsSome(snapshot) THEN apply_ruleset_payload(host, Unwrap(snapshot))
  ELSE delete_table(host, table_name)

\* ------------------------------------------------------------------------
\* Drift detection (ruleset.rs: normalize_json, render_diff, diff_ruleset)
\*
\* A ruleset text is [layout, value]: the JSON value it denotes and how it is
\* laid out ("pretty" as to_string_pretty writes it, "compact" on one line).
\* A normalised text is the sequence of its lines.
\* ------------------------------------------------------------------------
RECURSIVE to_string_pretty(_, _, _, _)
\* serde_json::to_string_pretty, line by line: two spaces of indentation per
\* level, one member or element per line, the keys of an object in sorted
\* order. `pad` is the indentation, `head` what stands before the value on its
\* first line (a key), `tail` what follows it on its last line (a comma).
to_string_pretty(value, pad, head, tail) ==
  LET sorted_keys ==
        <<"accept", "addr", "chain", "ct", "dnat", "expr", "family", "field", "flush",
          "hook", "key", "left", "len", "masquerade", "match", "meta", "name",
          "nftables", "op", "payload", "policy", "port", "prefix", "prio", "protocol",
          "right", "rule", "snat", "table", "type">>
      keys(fields) == SelectSeq(sorted_keys, LAMBDA k : k \in DOMAIN fields)
      number(n) == IF n < 0 THEN "-" \o IntToStr(0 - n) ELSE IntToStr(n)
      comma(k, n) == IF k < n THEN "," ELSE ""
      members(fields, ks) ==
        Flatten([k \in 1..Len(ks) |->
                   to_string_pretty(fields[ks[k]], pad \o "  ", "\"" \o ks[k] \o "\": ",
                                    comma(k, Len(ks)))])
      elements(items) ==
        Flatten([k \in 1..Len(items) |->
                   to_string_pretty(items[k], pad \o "  ", "", comma(k, Len(items)))])
  IN CASE value.j = "null" -> <<pad \o head \o "null" \o tail>>
       [] value.j = "string" -> <<pad \o head \o "\"" \o value.v \o "\"" \o tail>>
       [] value.j = "number" -> <<pad \o head \o number(value.v) \o tail>>
       [] value.j = "array" ->
            IF Len(value.v) = 0 THEN <<pad \o head \o "[]" \o tail>>
            ELSE <<pad \o head \o "[">> \o elements(value.v) \o <<pad \o "]" \o tail>>
       [] value.j = "object" ->
            IF DOMAIN value.v = {} THEN <<pad \o head \o "{}" \o tail>>
            ELSE <<pad \o head \o "{">> \o members(value.v, keys(value.v))
                 \o <<pad \o "}" \o tail>>

\* a normalisation that keeps the layout of its input, which C18 excludes
normalize_keeping_layout(input) ==
  IF input.layout = "pretty" THEN Ok(to_string_pretty(input.value, "", "", ""))
  ELSE IF input.layout = "compact" THEN Ok(<<"(one line)">>)
  ELSE Err

\* normalize_json: parse the text, print the value in pretty form; the layout of
\* the input is gone, a text that is no JSON is an error
normalize_json(input) ==
  IF input.layout \in {"pretty", "compact"}
  THEN Ok(to_string_pretty(input.value, "", "", ""))
  ELSE Err

\* render_diff: TextDiff::from_lines(current, desired), every change written as
\* its sign and its line: '-' a line of `current` only, '+' a line of `desired`
\* only, ' ' a line of both. The edit script is a shortest one, found over the
\* longest common subsequence of the two line sequences.
render_diff(current, desired) ==
  LET max(x, y) == IF x >= y THEN x ELSE y
      least(S) == CHOOSE x \in S : \A y \in S : x <= y
      signed(sign, lines) == [k \in 1..Len(lines) |-> sign \o lines[k]]
      \* how many lines a[i..] and b[j..] have in common at their start
      run(a, b, i, j) ==
        least({k \in 0..max(Len(a), Len(b)) :
                 i + k > Len(a) \/ j + k > Len(b) \/ a[i + k] # b[j + k]})
      \* how many lines a and b have in common at their end, p leading lines aside
      tail_run(a, b, p) ==
        least({k \in 0..max(Len(a), Len(b)) :
                 p + k >= Len(a) \/ p + k >= Len(b) \/ a[Len(a) - k] # b[Len(b) - k]})
      \* row i of the table of the lengths of the longest common subsequences of
      \* a[i..] and b[j..], from the row below it and the places where b has a[i]
      entry(below, j, later) ==
        IF later = {} THEN below[j] ELSE max(below[j], below[least(later) + 1] + 1)
      row_of(below, width, places) ==
        [j \in 1..width |-> entry(below, j, {k \in places : k >= j})]
      row(line, b, below) == row_of(below, Len(b) + 1, {k \in 1..Len(b) : b[k] = line})
      RECURSIVE rows(_, _, _)
      rows(a, b, i) ==
        IF i > Len(a) THEN <<[j \in 1..(Len(b) + 1) |-> 0]>>
        ELSE LET cons(rest) == <<row(a[i], b, rest[1])>> \o rest
             IN cons(rows(a, b, i + 1))
      \* the lines of b from j on that are inserted before a[i] is dealt with
      inserted(a, b, t, i, j) ==
        least({k \in 0..(Len(b) - j + 1) :
                 \/ j + k > Len(b)
                 \/ a[i] = b[j + k]
                 \/ t[i + 1][j + k] >= t[i][j + k + 1]})
      RECURSIVE walk(_, _, _, _, _)
      walk(a, b, t, i, j) ==
        IF i > Len(a) THEN signed("+", SubSeq(b, j, Len(b)))
        ELSE IF j > Len(b) THEN signed("-", SubSeq(a, i, Len(a)))
        ELSE IF a[i] = b[j]
        THEN LET same(n) == signed(" ", SubSeq(a, i, i + n - 1)) \o walk(a, b, t, i + n, j + n)
             IN same(run(a, b, i, j))
        ELSE IF t[i + 1][j] >= t[i][j + 1] THEN <<"-" \o a[i]>> \o walk(a, b, t, i + 1, j)
        ELSE LET added(n) == signed("+", SubSeq(b, j, j + n - 1)) \o walk(a, b, t, i, j + n)
             IN added(inserted(a, b, t, i, j))
      middle(a, b) ==
        IF Len(a) = 0 THEN signed("+", b)
        ELSE IF Len(b) = 0 THEN signed("-", a)
        ELSE walk(a, b, rows(a, b, 1), 1, 1)
      trimmed(p, s) ==
        signed(" ", SubSeq(current, 1, p))
        \o middle(SubSeq(current, p + 1, Len(current) - s),
                  SubSeq(desired, p + 1, Len(desired) - s))
        \o signed(" ", SubSeq(current, Len(current) - s + 1, Len(current)))
      after_prefix(p) == trimmed(p, tail_run(current, desired, p))
  IN after_prefix(run(current, desired, 1, 1))

\* NftManager::diff_ruleset: Ok(NftDiff), or Err when a text does not parse or
\* the listing of the table fails (`listed` is FALSE)
diff_ruleset(host, table_name, desired_ruleset, listed) ==
  LET NftDiff(matches, current_exists, diff) ==
        Ok([table |-> table_name, matches |-> matches,
            current_exists |-> current_exists, diff |-> diff])
      compared(normalized_current, normalized_desired) ==
        IF ~IsOk(normalized_current) THEN Err
        ELSE IF normalized_current.val = normalized_desired
        THEN NftDiff(TRUE, TRUE, None)
        ELSE NftDiff(FALSE, TRUE, Some(render_diff(normalized_current.val,
                                                   normalized_desired)))
      with_snapshot(normalized_desired, snapshot) ==
        IF ~IsOk(normalized_desired) THEN Err
        ELSE IF ~listed THEN Err
        ELSE IF IsSome(snapshot)
        THEN compared(normalize_json(Unwrap(snapshot)), normalized_desired.val)
        ELSE NftDiff(FALSE, FALSE, Some(render_diff(<<>>, normalized_desired.val)))
  IN with_snapshot(normalize_json(desired_ruleset), snapshot_table(host, table_name))

\* DnsmasqManager::write_config / delete_config
write_config(host, path, content) ==
  Done(TRUE, [host EXCEPT !.dnsmasq = MapInsert(@, path, content)])

delete_config(host, path) ==
  Done(TRUE, [host EXCEPT !.dnsmasq = MapRemove(@, path)])

\* ------------------------------------------------------------------------
\* Inputs: topology files, hosts, services, command lines
\* ------------------------------------------------------------------------
\* S1 of the specification: one routed NAT network
TopoS1 ==
  Topology(<<>>,
    [n \in {"nat_dev"} |->
       RoutedNetwork("10.33.0.0/24", "10.33.0.1", TRUE, None, Some("eth0"),
                     <<PortForward(":4022/tcp", "10.33.0.10:22")>>, None)])

\* two routed networks with the same cidr string; `dev` has no masq_out
TopoTwo ==
  Topology(<<>>,
    [n \in {"dev", "nat_dev"} |->
       IF n = "dev"
       THEN RoutedNetwork("10.0.0.0/24", "10.0.0.1", TRUE, None, None, <<>>, None)
       ELSE RoutedNetwork("10.0.0.0/24", "10.0.0.2", TRUE,
                          Some(DnsConfig(TRUE, <<"lab.test">>)), Some("eth0"), <<>>, None)])

\* a VLAN trunk bridged twice under the same bridge name
TopoBridge ==
  Topology([k \in {"uplink"} |-> "enp6s0"],
    [n \in {"lan", "lan2"} |->
       IF n = "lan" THEN BridgeNetwork("br0", Some(20), None)
       ELSE BridgeNetwork("br0", None, None)])

\* a routed network whose gateway lies outside its cidr and whose forward is port 0
TopoBad ==
  Topology(<<>>,
    [n \in {"bad"} |->
       RoutedNetwork("10.9.0.0/24", "10.8.0.1", FALSE, None, Some("eth0"),
                     <<PortForward(":0/tcp", "10.9.0.10:22")>>, None)])

Topologies == {TopoS1, TopoTwo, TopoBridge, TopoBad}

EmptyMap == <<>>

\* a table the operator made by hand: its declaration and one input chain
OperatorTable(name) ==
  Json("object",
       [nftables |->
          Json("array",
               <<Json("object",
                      [table |-> Json("object", [family |-> Json("string", "inet"),
                                                 name |-> Json("string", name)])]),
                 Json("object",
                      [chain |-> Json("object", [family |-> Json("string", "inet"),
                                                 table |-> Json("string", name),
                                                 name |-> Json("string", "input"),
                                                 type |-> Json("string", "filter"),
                                                 hook |-> Json("string", "input"),
                                                 prio |-> Json("number", 0),
                                                 policy |-> Json("string", "accept")])])>>)])

\* a host on which nothing of the tool's exists yet
FreshHost ==
  [links |-> {"eth0", "enp6s0"}, addrs |-> {}, forwarding |-> {}, controller |-> {},
   nft |-> EmptyMap, dnsmasq |-> EmptyMap]

\* a host on which the operator already has a bridge br-nat_dev and a table gw-nat_dev
UsedHost ==
  [links |-> {"eth0", "enp6s0", "br-nat_dev"}, addrs |-> {}, forwarding |-> {},
   controller |-> {},
   nft |-> [t \in {"gw-nat_dev"} |-> OperatorTable(t)],
   dnsmasq |-> EmptyMap]

InitialHosts == {FreshHost, UsedHost}

\* a rollback.json left behind by a release whose RollbackRecord carries a field
\* (restore_routes) that this release's RollbackRecord does not have
ForeignRecord ==
  LET extended(doc) ==
        Json("object", [k \in (DOMAIN doc.v) \cup {"restore_routes"} |->
                          IF k \in DOMAIN doc.v THEN doc.v[k] ELSE Json("array", <<>>)])
  IN extended(save_record(RollbackRecord_new(0, None, from_topology(TopoS1, <<"nat_dev">>),
                                             [t \in {"gw-nat_dev"} |-> None])))

ServiceSets == {{}, {"UFW"}, {"firewalld", "NetworkManager"}}

\* the policy profiles load_default_profiles finds: one of each default_action
LoadedProfiles ==
  [n \in {"open", "routed-tight", "sealed"} |->
     CASE n = "open" ->
            [name |-> n, allowed_ingress_cidrs |-> <<>>, allowed_egress_cidrs |-> <<>>,
             services |-> <<>>, default_action |-> "accept"]
       [] n = "routed-tight" ->
            [name |-> n, allowed_ingress_cidrs |-> <<"10.33.0.0/24">>,
             allowed_egress_cidrs |-> <<"8.8.8.8/32">>,
             services |-> <<[protocol |-> "tcp", port |-> 80, source |-> None]>>,
             default_action |-> "drop"]
       [] n = "sealed" ->
            [name |-> n,
             allowed_ingress_cidrs |-> <<"10.33.0.0/24", "192.168.0.0/16">>,
             allowed_egress_cidrs |-> <<"1.1.1.1/32", "8.8.8.8/32">>,
             services |-> <<[protocol |-> "udp", port |-> 53, source |-> Some("10.33.0.0/24")],
                            [protocol |-> "icmp", port |-> 0, source |-> None],
                            [protocol |-> "tcp", port |-> 22, source |-> None]>>,
             default_action |-> "reject"]]

\* --confirm default
DefaultConfirm == 30

ProbeTarget == "192.0.2.1:9999"

ApplyCmds ==
  [name : {"apply"}, commit : BOOLEAN, confirm : {0, DefaultConfirm},
   probe : {None, Some(ProbeTarget)}, execute : {FALSE}, table : {None}]

RollbackCmds ==
  [name : {"rollback"}, commit : {FALSE}, confirm : {0}, probe : {None},
   execute : BOOLEAN, table : {None}]

\* net diff, without and with --table
DiffCmds ==
  [name : {"diff"}, commit : {FALSE}, confirm : {0}, probe : {None},
   execute : {FALSE}, table : {None, Some(" NAT_dev ")}]

Commands == ApplyCmds \cup RollbackCmds

\* The topology files on which the planner, the validator and the ruleset
\* generator are exercised one by one: S1 and its companions, a routed network
\* bound to each policy profile (and to one that is not loaded) with two
\* forwards and no dhcp, one whose masq_out is the empty string, a routed and a
\* bridged network side by side, single routed networks over a range of
\* prefixes and gateways, pairs of routed networks over a range of cidrs, and a
\* routed network with one forward over a range of `public` specs.
InputTopologies ==
  LET routed(name, network) == Topology(<<>>, [n \in {name} |-> network])
      forwards == <<PortForward(":4022/tcp", "10.33.0.10:22"),
                    PortForward("192.0.2.7:8080/udp", "10.33.0.11:80")>>
      bound(profile) ==
        routed("nat_dev", RoutedNetwork("10.33.0.0/24", "10.33.0.1", FALSE, None,
                                        Some("eth0"), forwards, Some(profile)))
      unmasqueraded ==
        routed("nat_dev", RoutedNetwork("10.33.0.0/24", "10.33.0.1", FALSE, None,
                                        Some(""), forwards, None))
      mixed ==
        Topology([k \in {"uplink"} |-> "enp6s0"],
          [n \in {"dev", "lan"} |->
             IF n = "dev"
             THEN RoutedNetwork("10.0.0.0/24", "10.0.0.1", TRUE, None, None, <<>>, None)
             ELSE BridgeNetwork("br0", Some(20), None)])
      gateways ==
        {<<"0.0.0.0/0", "10.0.0.1">>, <<"0.0.0.0/0", "0.0.0.0">>,
         <<"128.0.0.0/1", "200.1.1.1">>, <<"128.0.0.0/1", "127.0.0.1">>,
         <<"10.0.0.0/8", "10.255.0.1">>, <<"10.0.0.0/8", "11.0.0.1">>,
         <<"10.0.0.0/9", "10.128.0.1">>, <<"172.16.0.0/12", "172.31.255.254">>,
         <<"172.16.0.0/12", "172.32.0.1">>, <<"10.0.0.0/17", "10.0.127.1">>,
         <<"10.0.0.0/17", "10.0.128.1">>, <<"192.168.1.0/24", "192.168.1.1">>,
         <<"192.168.1.0/24", "192.168.2.1">>, <<"10.0.0.0/25", "10.0.0.128">>,
         <<"10.0.0.0/30", "10.0.0.4">>, <<"10.0.0.0/31", "10.0.0.1">>,
         <<"10.1.2.3/32", "10.1.2.3">>, <<"10.1.2.3/32", "10.1.2.4">>}
      pairs ==
        {<<"0.0.0.0/0", "10.0.0.0/8">>, <<"128.0.0.0/1", "192.168.0.0/16">>,
         <<"128.0.0.0/1", "10.0.0.0/8">>, <<"10.0.0.0/8", "10.1.0.0/16">>,
         <<"10.0.0.0/16", "10.1.0.0/16">>, <<"10.0.0.0/24", "10.0.1.0/24">>,
         <<"192.168.1.0/24", "192.168.1.128/25">>, <<"10.1.2.3/32", "10.1.2.3/32">>,
         <<"10.1.2.3/32", "10.1.2.4/32">>}
      pair(c) ==
        Topology(<<>>,
          [n \in {"east", "west"} |->
             RoutedNetwork(IF n = "east" THEN c[1] ELSE c[2],
                           Split(IF n = "east" THEN c[1] ELSE c[2], "/")[1],
                           FALSE, None, None, <<>>, None)])
      publics == {":4022/sctp", ":4022", "4022/tcp", "192.0.2.7:53/udp"}
      forwarding(public) ==
        routed("nat_dev", RoutedNetwork("10.33.0.0/24", "10.33.0.1", FALSE, None,
                                        Some("eth0"),
                                        <<PortForward(public, "10.33.0.10:22")>>, None))
  IN Topologies
     \cup {pair(c) : c \in pairs}
     \cup {forwarding(public) : public \in publics}
     \cup {bound(profile) : profile \in {"open", "routed-tight", "sealed", "absent"}}
     \cup {unmasqueraded, mixed}
     \cup {routed("lab", RoutedNetwork(g[1], g[2], FALSE, None, None, <<>>, None)) :
            g \in gateways}

\* The hosts a topology is compared with: the fresh and the used one, one whose
\* tables are the generated rulesets, one on which the first DNAT rule of every
\* such table was deleted by hand, and one on which a rule was added by hand.
InputHosts(topology, order) ==
  LET generated(t) == generate_ruleset(topology, order, t, LoadedProfiles)
      made == {t \in {"gw-" \o n : n \in DOMAIN topology.networks} :
                 IsOk(generated(t)) /\ generated(t).val # None}
      statements(t) == Unwrap(generated(t).val).ruleset.value.v.nftables.v
      is_dnat(statement) ==
        /\ "rule" \in DOMAIN statement.v
        /\ \E k \in 1..Len(statement.v.rule.v.expr.v) :
             "dnat" \in DOMAIN statement.v.rule.v.expr.v[k].v
      without(items, at) ==
        IF at = {} THEN items
        ELSE [k \in 1..(Len(items) - 1) |->
                IF k < (CHOOSE a \in at : \A b \in at : a <= b) THEN items[k]
                ELSE items[k + 1]]
      without_dnat(items) == without(items, {k \in 1..Len(items) : is_dnat(items[k])})
      by_hand(t) ==
        Json("object",
             [rule |-> Json("object",
                [family |-> Json("string", "inet"), table |-> Json("string", t),
                 chain |-> Json("string", "input"),
                 expr |-> Json("array", <<Json("object", [accept |-> Json("null", <<>>)])>>)])])
      document(items) == Json("object", [nftables |-> Json("array", items)])
      holding(tables) == [FreshHost EXCEPT !.nft = tables]
  IN {FreshHost, UsedHost,
      holding([t \in made |-> document(statements(t))]),
      holding([t \in made |-> document(without_dnat(statements(t)))]),
      holding([t \in made |-> document(Append(statements(t), by_hand(t)))])}

\* ------------------------------------------------------------------------
\* Bounds
\* ------------------------------------------------------------------------
\* command invocations in one behaviour
MaxRuns == 2
\* capability calls that fail for a reason outside the model (I/O, netlink, nft)
MaxFaults == 1

\* ------------------------------------------------------------------------
\* The match arms of the execution loop (main.rs, apply_network_config)
\*
\* Each arm yields [result, host, context, struck, calls]:
\*   result   "ok" when the arm ran to its end, "err" when a `?` returned early,
\*            "panic" when an unwrap panicked
\*   host     the host it leaves
\*   context  the ExecutionContext it leaves
\*   struck   whether the injected capability failure `fault` was reached
\*   calls    the capability calls made, in order
\* `fault` is the position, among the arm's capability calls, of a call that
\* fails for a reason outside the model (0: none does).
\* ------------------------------------------------------------------------
Outcome(result, host, context, struck, calls) ==
  [result |-> result, host |-> host, context |-> context, struck |-> struck,
   calls |-> calls]

\* a capability call under fault injection
Call(fault, position, done, host) == IF fault = position THEN Done(FALSE, host) ELSE done

ArmCreateBridge(host, ctx, topology, order, action, fault) ==
  LET r1 == Call(fault, 1, create_bridge(host, action.name), host)
  IN IF ~r1.ok THEN Outcome("err", r1.host, ctx, fault = 1, <<"create_bridge">>)
     ELSE IF action.cidr = None
     THEN Outcome("ok", r1.host, record_action(ctx, action), FALSE, <<"create_bridge">>)
     ELSE LET gw_ip == extract_gateway_ip(Unwrap(action.cidr), topology, order)
          IN IF ~IsOk(gw_ip)
             THEN Outcome(gw_ip.tag, r1.host, ctx, FALSE, <<"create_bridge">>)
             ELSE LET r2 == Call(fault, 2, add_address(r1.host, action.name, gw_ip.val),
                                 r1.host)
                  IN IF ~r2.ok
                     THEN Outcome("err", r2.host, ctx, fault = 2,
                                  <<"create_bridge", "add_address">>)
                     ELSE Outcome("ok", r2.host, record_action(ctx, action), FALSE,
                                  <<"create_bridge", "add_address">>)

ArmAddAddress(host, ctx, action, fault) ==
  LET r == Call(fault, 1, add_address(host, action.iface, action.addr), host)
  IN IF ~r.ok THEN Outcome("err", r.host, ctx, fault = 1, <<"add_address">>)
     ELSE Outcome("ok", r.host, record_action(ctx, action), FALSE, <<"add_address">>)

ArmEnableForwarding(host, ctx, action, fault) ==
  LET r == Call(fault, 1, enable_forwarding(host, action.iface), host)
  IN IF ~r.ok THEN Outcome("err", r.host, ctx, fault = 1, <<"enable_forwarding">>)
     ELSE Outcome("ok", r.host, record_action(ctx, action), FALSE, <<"enable_forwarding">>)

\* NftManager::apply_ruleset is snapshot_table followed by apply_ruleset_payload
ArmCreateNftRuleset(host, ctx, topology, order, action, fault) ==
  LET generated == generate_ruleset(topology, order, action.table, LoadedProfiles)
  IN IF ~IsOk(generated) THEN Outcome("err", host, ctx, FALSE, <<>>)
     ELSE IF generated.val = None THEN Outcome("ok", host, ctx, FALSE, <<>>)
     ELSE LET snapshot == snapshot_table(host, action.table)
          IN IF fault = 1 THEN Outcome("err", host, ctx, TRUE, <<"snapshot_table">>)
             ELSE LET r == Call(fault, 2,
                                apply_ruleset_payload(host, Unwrap(generated.val).ruleset),
                                host)
                  IN IF ~r.ok
                     THEN Outcome("err", r.host, ctx, fault = 2,
                                  <<"snapshot_table", "apply_ruleset_payload">>)
                     ELSE Outcome("ok", r.host,
                                  record_action(
                                    record_nft_snapshot(ctx, action.table, snapshot),
                                    action),
                                  FALSE, <<"snapshot_table", "apply_ruleset_payload">>)

ArmStartDnsmasq(host, ctx, topology, order, action, fault) ==
  LET dns_config == get_dns_config(topology, order, action.config_path)
  IN IF dns_config = None THEN Outcome("ok", host, ctx, FALSE, <<>>)
     ELSE LET d == Unwrap(dns_config)
              config == generate_config(d.bridge, d.cidr, d.zones)
          IN IF ~IsOk(config) THEN Outcome("err", host, ctx, FALSE, <<>>)
             ELSE LET r1 == Call(fault, 1,
                                 write_config(host, action.config_path, config.val), host)
                  IN IF ~r1.ok
                     THEN Outcome("err", r1.host, ctx, fault = 1, <<"write_config">>)
                     ELSE IF fault = 2
                     THEN Outcome("err", r1.host, ctx, TRUE, <<"write_config", "restart">>)
                     ELSE Outcome("ok", r1.host, record_action(ctx, action), FALSE,
                                  <<"write_config", "restart">>)

ArmCreateVlan(host, ctx, action, fault) ==
  LET r == Call(fault, 1, create_vlan(host, action.parent, action.name), host)
  IN IF ~r.ok THEN Outcome("err", r.host, ctx, fault = 1, <<"create_vlan">>)
     ELSE Outcome("ok", r.host, record_action(ctx, action), FALSE, <<"create_vlan">>)

ArmAttachVlanToBridge(host, ctx, action, fault) ==
  LET r == Call(fault, 1, attach_vlan_to_bridge(host, action.vlan, action.bridge), host)
  IN IF ~r.ok THEN Outcome("err", r.host, ctx, fault = 1, <<"attach_vlan_to_bridge">>)
     ELSE Outcome("ok", r.host, record_action(ctx, action), FALSE,
                  <<"attach_vlan_to_bridge">>)

\* ------------------------------------------------------------------------
\* The match arms of execute_rollback (main.rs)
\* Each yields [ok, host, struck, calls]; ok is FALSE when a call of the arm failed
\* ------------------------------------------------------------------------
Reverted(ok, host, struck, calls) ==
  [ok |-> ok, host |-> host, struck |-> struck, calls |-> calls]

RollbackArm(host, op, fault) ==
  CASE op.op = "DeleteBridge" ->
         LET r == Call(fault, 1, delete_bridge(host, op.name), host)
         IN Reverted(r.ok, r.host, fault = 1, <<"delete_bridge">>)
    [] op.op = "RemoveAddress" ->
         LET r == Call(fault, 1, delete_address(host, op.iface, op.addr), host)
         IN Reverted(r.ok, r.host, fault = 1, <<"delete_address">>)
    [] op.op = "RestoreNft" ->
         LET r == Call(fault, 1,
                       restore_table_from_snapshot(host, op.table, op.snapshot), host)
         IN Reverted(r.ok, r.host, fault = 1, <<"restore_table_from_snapshot">>)
    [] op.op = "DeleteDnsmasqConfig" ->
         LET r == Call(fault, 1, delete_config(host, op.path), host)
         IN Reverted(r.ok /\ fault # 2, r.host, fault \in {1, 2},
                     <<"delete_config", "restart">>)
    [] op.op = "DeleteVlan" ->
         LET r == Call(fault, 1, delete_bridge(host, op.name), host)
         IN Reverted(r.ok, r.host, fault = 1, <<"delete_bridge">>)

\* a rollback loop that gives up at the first failing op, which C4 excludes
rollback_stops_on_failure(op_ok) == op_ok

\* execute_rollback after one op: it goes on to the next op whatever the outcome
rollback_continues(op_ok) == TRUE

\* the value execute_rollback returns
execute_rollback_result(attempted) == "ok"

\* ------------------------------------------------------------------------
\* The state machine: successive invocations of `gwarden net apply` and
\* `gwarden rollback` on one host
\* ------------------------------------------------------------------------
VARIABLES
  host,                 \* the kernel and daemon state
  record_file,          \* rollback.json: None, or Some(JSON document)
  services,             \* the conflicting services active on the host
  topology,             \* the topology file
  cmd,                  \* the command line of the running invocation
  order,                \* the iteration order of topology.networks in this process
  pc,                   \* the position of the running invocation
  exit,                 \* "running", or how the invocation ended: "ok", "err", "panic"
  validation_warnings,  \* apply_network_config's local
  conflict_report,      \* apply_network_config's local
  plan,                 \* plan.actions
  i,                    \* the execution loop's position in plan
  context,              \* the ExecutionContext local: None before creation and after return
  rb_ops,               \* execute_rollback: the ops of context.rollback_operations()
  rb_i,                 \* execute_rollback: the loop's position in rb_ops
  rb_attempted,         \* execute_rollback: the ops attempted so far, with their outcome
  trigger,              \* why execute_rollback runs: "probe", "unconfirmed", "snapshot"
  timer,                \* the confirmation timeout: "unarmed", "armed", "fired", "dropped"
  stdin,                \* the stdin reader task: "idle", "reading", "line", "eof"
  probed,               \* the outcome of the probe's TCP connect ("none": not probed)
  calls,                \* the capability calls this invocation has made
  failed_at,            \* the plan position whose arm returned an error (0: none)
  faults,               \* injected capability failures so far
  run,                  \* the number of the running invocation
  host0,                \* the host when the running invocation started
  prev_applied,         \* Some(host left) when the previous invocation was an
                        \* apply --commit that ended "ok", else None
  diffs,                \* diff_network_config: the NftDiff of each table compared
  last_generated        \* diff_network_config: the loop's local `generated`, as last bound

vars ==
  <<host, record_file, services, topology, cmd, order, pc, exit, validation_warnings,
    conflict_report, plan, i, context, rb_ops, rb_i, rb_attempted, trigger, timer,
    stdin, probed, calls, failed_at, faults, run, host0, prev_applied, diffs,
    last_generated>>

\* the locals of the rollback loop and of the confirmation wait
rbVars == <<rb_ops, rb_i, rb_attempted, trigger>>
waitVars == <<timer, stdin, probed>>
\* what no step of an invocation changes
fixedVars ==
  <<services, topology, cmd, order, run, host0, prev_applied, diffs, last_generated>>

Orders(t) == Perms(DOMAIN t.networks)

Init ==
  /\ host \in InitialHosts
  /\ record_file \in {None, Some(ForeignRecord)}
  /\ services \in ServiceSets
  /\ topology \in Topologies
  /\ cmd \in Commands
  /\ order \in Orders(topology)
  /\ pc = "start"
  /\ exit = "running"
  /\ validation_warnings = <<>>
  /\ conflict_report = <<>>
  /\ plan = <<>>
  /\ i = 0
  /\ context = None
  /\ rb_ops = <<>>
  /\ rb_i = 0
  /\ rb_attempted = <<>>
  /\ trigger = "none"
  /\ timer = "unarmed"
  /\ stdin = "idle"
  /\ probed = "none"
  /\ calls = <<>>
  /\ failed_at = 0
  /\ faults = 0
  /\ run = 1
  /\ host0 = host
  /\ prev_applied = None
  /\ diffs = <<>>
  /\ last_generated = None

\* the positions at which a capability call of an arm with n calls may fail
FaultChoices(n) == IF faults < MaxFaults THEN 0..n ELSE {0}

\* the function returns: its locals are dropped
Return(result) ==
  /\ pc' = "done"
  /\ exit' = result
  /\ context' = None

\* lines 267-291 of main.rs: validate, print, bail on an error-class warning
Validate ==
  /\ pc = "start"
  /\ cmd.name = "apply"
  /\ \E checked \in BOOLEAN :
       LET r == validate(topology, order, checked)
       IN IF ~IsOk(r)
          THEN /\ Return(r.tag)
               /\ UNCHANGED validation_warnings
          ELSE /\ validation_warnings' = r.val
               /\ IF \E k \in 1..Len(r.val) : is_error(r.val[k])
                  THEN Return("err")
                  ELSE pc' = "conflicts" /\ UNCHANGED <<exit, context>>
  /\ UNCHANGED <<host, record_file, conflict_report, plan, i, calls, failed_at, faults>>
  /\ UNCHANGED <<rbVars, waitVars, fixedVars>>

\* lines 293-304: detect conflicts; an error conflict ends a run without --commit
DetectConflicts ==
  /\ pc = "conflicts"
  /\ conflict_report' = detect_all(services)
  /\ IF has_errors(conflict_report') /\ ~cmd.commit
     THEN Return("ok")
     ELSE pc' = "plan" /\ UNCHANGED <<exit, context>>
  /\ UNCHANGED <<host, record_file, validation_warnings, plan, i, calls, failed_at,
                 faults>>
  /\ UNCHANGED <<rbVars, waitVars, fixedVars>>

\* lines 306-327: plan; a dry run ends here; otherwise the context is created
GeneratePlan ==
  /\ pc = "plan"
  /\ plan' = from_topology(topology, order)
  /\ IF ~cmd.commit
     THEN Return("ok") /\ UNCHANGED i
     ELSE /\ context' = Some(attach_plan(ExecutionContext_new, plan'))
          /\ i' = 1
          /\ pc' = IF plan' = <<>> THEN "save" ELSE "exec"
          /\ UNCHANGED exit
  /\ UNCHANGED <<host, record_file, validation_warnings, conflict_report, calls,
                 failed_at, faults>>
  /\ UNCHANGED <<rbVars, waitVars, fixedVars>>

\* one iteration of the loop of lines 330-391, given the outcome of its arm
Iterate(o) ==
  /\ host' = o.host
  /\ calls' = calls \o o.calls
  /\ faults' = faults + (IF o.struck THEN 1 ELSE 0)
  /\ IF o.result = "ok"
     THEN /\ context' = Some(o.context)
          /\ i' = i + 1
          /\ pc' = IF i = Len(plan) THEN "save" ELSE "exec"
          /\ UNCHANGED <<exit, failed_at>>
     ELSE /\ Return(o.result)
          /\ failed_at' = i
          /\ UNCHANGED i
  /\ UNCHANGED <<record_file, validation_warnings, conflict_report, plan>>
  /\ UNCHANGED <<rbVars, waitVars, fixedVars>>

AtAction(kind) == pc = "exec" /\ i <= Len(plan) /\ plan[i].kind = kind

ExecCreateBridge ==
  /\ AtAction("CreateBridge")
  /\ \E fault \in FaultChoices(2) :
       Iterate(ArmCreateBridge(host, Unwrap(context), topology, order, plan[i], fault))

ExecAddAddress ==
  /\ AtAction("AddAddress")
  /\ \E fault \in FaultChoices(1) :
       Iterate(ArmAddAddress(host, Unwrap(context), plan[i], fault))

ExecEnableForwarding ==
  /\ AtAction("EnableForwarding")
  /\ \E fault \in FaultChoices(1) :
       Iterate(ArmEnableForwarding(host, Unwrap(context), plan[i], fault))

ExecCreateNftRuleset ==
  /\ AtAction("CreateNftRuleset")
  /\ \E fault \in FaultChoices(2) :
       Iterate(ArmCreateNftRuleset(host, Unwrap(context), topology, order, plan[i], fault))

ExecStartDnsmasq ==
  /\ AtAction("StartDnsmasq")
  /\ \E fault \in FaultChoices(2) :
       Iterate(ArmStartDnsmasq(host, Unwrap(context), topology, order, plan[i], fault))

ExecCreateVlan ==
  /\ AtAction("CreateVlan")
  /\ \E fault \in FaultChoices(1) :
       Iterate(ArmCreateVlan(host, Unwrap(context), plan[i], fault))

ExecAttachVlanToBridge ==
  /\ AtAction("AttachVlanToBridge")
  /\ \E fault \in FaultChoices(1) :
       Iterate(ArmAttachVlanToBridge(host, Unwrap(context), plan[i], fault))

\* lines 395-397: the record is written; a failed write returns the error
SaveRecord ==
  /\ pc = "save"
  /\ \E fault \in FaultChoices(1) :
       /\ faults' = faults + (IF fault = 1 THEN 1 ELSE 0)
       /\ IF fault = 1
          THEN Return("err") /\ UNCHANGED record_file
          ELSE /\ record_file' = Some(save_record(to_rollback_record(Unwrap(context), run)))
               /\ pc' = IF IsSome(cmd.probe) THEN "probe" ELSE "confirm"
               /\ UNCHANGED <<exit, context>>
  /\ calls' = Append(calls, "save_record")
  /\ UNCHANGED <<host, validation_warnings, conflict_report, plan, i, failed_at>>
  /\ UNCHANGED <<rbVars, waitVars, fixedVars>>

\* a probe that takes a connect timeout for success, which C6 excludes
connect_timeout_reachable(connect) == connect # "refused"

\* RollbackManager::check_tcp_connectivity: true only for a completed connect
check_tcp_connectivity(connect) == connect = "connected"

\* execute_rollback begins: the ops are computed once, before the loop
BeginRollback(ctx, why) ==
  /\ rb_ops' = rollback_operations(ctx)
  /\ rb_i' = 1
  /\ rb_attempted' = <<>>
  /\ trigger' = why
  /\ pc' = IF rb_ops' = <<>> THEN "rb_done" ELSE "rollback"

\* lines 401-420: the probe; an unreachable target starts the reversal
Probe ==
  /\ pc = "probe"
  /\ \E connect \in {"connected", "refused", "timeout"} :
       /\ probed' = connect
       /\ IF check_tcp_connectivity(connect)
          THEN pc' = "confirm" /\ UNCHANGED rbVars
          ELSE BeginRollback(Unwrap(context), "probe")
  /\ UNCHANGED <<host, record_file, exit, validation_warnings, conflict_report, plan, i,
                 context, timer, stdin, calls, failed_at, faults>>
  /\ UNCHANGED fixedVars

\* line 423 and wait_for_confirmation lines 99-113: with confirm > 0 the reader
\* task is spawned and the timeout armed; with confirm = 0 the function returns
ArmConfirmation ==
  /\ pc = "confirm"
  /\ IF cmd.confirm > 0
     THEN /\ timer' = "armed"
          /\ stdin' = "reading"
          /\ pc' = "waiting"
          /\ UNCHANGED <<exit, context>>
     ELSE /\ Return("ok")
          /\ UNCHANGED <<timer, stdin>>
  /\ UNCHANGED <<host, record_file, validation_warnings, conflict_report, plan, i,
                 probed, calls, failed_at, faults>>
  /\ UNCHANGED <<rbVars, fixedVars>>

\* a wait in which the elapsed timeout counts as a confirmation, which C5 excludes
timeout_confirms(event) == event \in {"line", "timeout"}

\* wait_for_confirmation lines 116-125: Ok(Some(_)) confirms; a closed channel
\* (Ok(None)) and an elapsed timeout (Err(_)) do not
wait_for_confirmation(event) == event = "line"

\* lines 424-436, given the event that ended the wait
Confirmation(event) ==
  IF wait_for_confirmation(event)
  THEN Return("ok") /\ UNCHANGED rbVars
  ELSE BeginRollback(Unwrap(context), "unconfirmed") /\ UNCHANGED <<exit, context>>

\* the operator's line reaches the reader task before the timeout elapses
ConfirmLine ==
  /\ pc = "waiting"
  /\ stdin' = "line"
  /\ timer' = "dropped"
  /\ Confirmation("line")
  /\ UNCHANGED <<host, record_file, validation_warnings, conflict_report, plan, i,
                 probed, calls, failed_at, faults>>
  /\ UNCHANGED fixedVars

\* standard input ends before the timeout elapses: the sender is dropped unsent
ConfirmEof ==
  /\ pc = "waiting"
  /\ stdin' = "eof"
  /\ timer' = "dropped"
  /\ Confirmation("eof")
  /\ UNCHANGED <<host, record_file, validation_warnings, conflict_report, plan, i,
                 probed, calls, failed_at, faults>>
  /\ UNCHANGED fixedVars

\* the timeout elapses first
ConfirmTimeout ==
  /\ pc = "waiting"
  /\ timer' = "fired"
  /\ UNCHANGED stdin
  /\ Confirmation("timeout")
  /\ UNCHANGED <<host, record_file, validation_warnings, conflict_report, plan, i,
                 probed, calls, failed_at, faults>>
  /\ UNCHANGED fixedVars

\* one iteration of the loop of execute_rollback
RollbackStep ==
  /\ pc = "rollback"
  /\ rb_i <= Len(rb_ops)
  /\ \E fault \in FaultChoices(2) :
       LET r == RollbackArm(host, rb_ops[rb_i], fault)
       IN /\ host' = r.host
          /\ calls' = calls \o r.calls
          /\ faults' = faults + (IF r.struck THEN 1 ELSE 0)
          /\ rb_attempted' = Append(rb_attempted, [op |-> rb_ops[rb_i], ok |-> r.ok])
          /\ IF rollback_continues(r.ok)
             THEN /\ rb_i' = rb_i + 1
                  /\ pc' = IF rb_i = Len(rb_ops) THEN "rb_done" ELSE "rollback"
                  /\ UNCHANGED <<exit, context>>
             ELSE /\ Return("err")
                  /\ UNCHANGED rb_i
  /\ UNCHANGED <<record_file, validation_warnings, conflict_report, plan, i, rb_ops,
                 trigger, failed_at>>
  /\ UNCHANGED <<waitVars, fixedVars>>

\* execute_rollback returns; then clear_record, then the caller's ending:
\* apply bails (lines 417-418, 432-434), rollback returns Ok (lines 741-744)
FinishRollback ==
  /\ pc = "rb_done"
  /\ IF execute_rollback_result(rb_attempted) = "ok"
     THEN /\ record_file' = None
          /\ calls' = Append(calls, "clear_record")
          /\ Return(IF cmd.name = "apply" THEN "err" ELSE "ok")
     ELSE /\ Return("err")
          /\ UNCHANGED <<record_file, calls>>
  /\ UNCHANGED <<host, validation_warnings, conflict_report, plan, i, failed_at, faults>>
  /\ UNCHANGED <<rbVars, waitVars, fixedVars>>

\* run_snapshot_rollback lines 699-738
LoadRecord ==
  /\ pc = "start"
  /\ cmd.name = "rollback"
  /\ IF ~IsOk(load_record(record_file))
     THEN Return("err") /\ UNCHANGED rbVars
     ELSE IF load_record(record_file).val = None \/ ~cmd.execute
          THEN Return("ok") /\ UNCHANGED rbVars
          ELSE /\ context' = Some(from_rollback_record(Unwrap(load_record(record_file).val)))
               /\ BeginRollback(Unwrap(context'), "snapshot")
               /\ UNCHANGED exit
  /\ UNCHANGED <<host, record_file, validation_warnings, conflict_report, plan, i,
                 calls, failed_at, faults>>
  /\ UNCHANGED <<waitVars, fixedVars>>

\* diff_network_config lines 462-466: the topology is read and planned
DiffStart ==
  /\ pc = "start"
  /\ cmd.name = "diff"
  /\ plan' = from_topology(topology, order)
  /\ i' = 1
  /\ pc' = "diff"
  /\ UNCHANGED <<host, record_file, exit, validation_warnings, conflict_report, context,
                 calls, failed_at, faults>>
  /\ UNCHANGED <<rbVars, waitVars, fixedVars>>

\* one iteration of the loop of lines 471-514, or its end: a CreateNftRuleset
\* action that passes the filter has its ruleset generated and compared
DiffStep ==
  LET table_matches_filter(filter, table) ==
        Len(Trim(filter)) = 0 \/ Contains(ToLower(table), ToLower(Trim(filter)))
      network_matches(filter, config) ==
        IsSome(config) /\ table_matches_filter(filter, Unwrap(config).network_name)
      selected(action) ==
        /\ action.kind = "CreateNftRuleset"
        /\ IsSome(cmd.table) =>
             \/ table_matches_filter(Unwrap(cmd.table), action.table)
             \/ network_matches(Unwrap(cmd.table),
                                nft_config_for_table(topology, order, action.table))
      skip ==
        i' = i + 1 /\ UNCHANGED <<pc, exit, context, calls, faults, diffs, last_generated>>
      compared(table, diff) ==
        /\ calls' = Append(calls, "snapshot_table")
        /\ IF IsOk(diff)
           THEN /\ diffs' = Append(diffs, diff.val)
                /\ i' = i + 1
                /\ UNCHANGED <<pc, exit, context>>
           ELSE Return("err") /\ UNCHANGED <<i, diffs>>
      generated(table, ruleset) ==
        IF ~IsOk(ruleset)
        THEN Return("err") /\ UNCHANGED <<i, calls, faults, diffs, last_generated>>
        ELSE IF ruleset.val = None THEN skip
        ELSE \E fault \in FaultChoices(1) :
               /\ faults' = faults + fault
               /\ last_generated' = ruleset.val
               /\ compared(table, diff_ruleset(host, table, Unwrap(ruleset.val).ruleset,
                                               fault = 0))
  IN /\ pc = "diff"
     /\ IF i > Len(plan)
        THEN Return("ok") /\ UNCHANGED <<i, calls, faults, diffs, last_generated>>
        ELSE IF ~selected(plan[i]) THEN skip
        ELSE generated(plan[i].table,
                       generate_ruleset(topology, order, plan[i].table, LoadedProfiles))
     /\ UNCHANGED <<host, record_file, validation_warnings, conflict_report, plan,
                    failed_at>>
     /\ UNCHANGED <<rbVars, waitVars>>
     /\ UNCHANGED <<services, topology, cmd, order, run, host0, prev_applied>>

\* the invocation has ended; the operator runs the next command
NextCommand ==
  /\ pc = "done"
  /\ run < MaxRuns
  /\ run' = run + 1
  /\ cmd' \in Commands
  /\ order' \in Orders(topology)
  /\ host0' = host
  /\ prev_applied' = IF cmd.name = "apply" /\ cmd.commit /\ exit = "ok"
                     THEN Some(host) ELSE None
  /\ pc' = "start"
  /\ exit' = "running"
  /\ validation_warnings' = <<>>
  /\ conflict_report' = <<>>
  /\ plan' = <<>>
  /\ i' = 0
  /\ context' = None
  /\ rb_ops' = <<>>
  /\ rb_i' = 0
  /\ rb_attempted' = <<>>
  /\ trigger' = "none"
  /\ timer' = "unarmed"
  /\ stdin' = "idle"
  /\ probed' = "none"
  /\ calls' = <<>>
  /\ failed_at' = 0
  /\ diffs' = <<>>
  /\ last_generated' = None
  /\ UNCHANGED <<host, record_file, services, topology, faults>>

Next ==
  \/ Validate
  \/ DetectConflicts
  \/ GeneratePlan
  \/ ExecCreateBridge
  \/ ExecAddAddress
  \/ ExecEnableForwarding
  \/ ExecCreateNftRuleset
  \/ ExecStartDnsmasq
  \/ ExecCreateVlan
  \/ ExecAttachVlanToBridge
  \/ SaveRecord
  \/ Probe
  \/ ArmConfirmation
  \/ ConfirmLine
  \/ ConfirmEof
  \/ ConfirmTimeout
  \/ RollbackStep
  \/ FinishRollback
  \/ LoadRecord
  \/ NextCommand

Spec == Init /\ [][Next]_vars

\* ------------------------------------------------------------------------
\* The read-only commands, one invocation each, over the wider inputs: an
\* apply without --commit (validate, detect, plan) and a net diff
\* ------------------------------------------------------------------------
InitInputs ==
  /\ topology \in InputTopologies
  /\ order \in Orders(topology)
  /\ host \in InputHosts(topology, order)
  /\ record_file = None
  /\ services \in ServiceSets
  /\ cmd \in {c \in ApplyCmds : ~c.commit /\ c.confirm = DefaultConfirm /\ c.probe = None}
              \cup DiffCmds
  /\ pc = "start"
  /\ exit = "running"
  /\ validation_warnings = <<>>
  /\ conflict_report = <<>>
  /\ plan = <<>>
  /\ i = 0
  /\ context = None
  /\ rb_ops = <<>>
  /\ rb_i = 0
  /\ rb_attempted = <<>>
  /\ trigger = "none"
  /\ timer = "unarmed"
  /\ stdin = "idle"
  /\ probed = "none"
  /\ calls = <<>>
  /\ failed_at = 0
  /\ faults = 0
  /\ run = 1
  /\ host0 = host
  /\ prev_applied = None
  /\ diffs = <<>>
  /\ last_generated = None

NextInputs ==
  \/ Validate
  \/ DetectConflicts
  \/ GeneratePlan
  \/ DiffStart
  \/ DiffStep

SpecInputs == InitInputs /\ [][NextInputs]_vars

\* ------------------------------------------------------------------------
\* ExecutionContext on its own: any caller of record_action and
\* record_nft_snapshot (executor.rs), as its unit tests are
\* ------------------------------------------------------------------------
\* the longest actions_completed built
MaxActions == 3

SampleSnapshot == [layout |-> "compact", value |-> OperatorTable("gw-nat")]

SampleActions ==
  {CreateBridge("br-nat", Some("10.33.0.0/24")),
   AddAddress("br-nat", "10.33.0.1/24"),
   EnableForwarding("br-nat"),
   CreateNftRuleset("gw-nat", Some("routed-tight")),
   CreateNftRuleset("gw-lab", None),
   StartDnsmasq("/etc/dnsmasq.d/gw-nat.conf"),
   CreateVlan("enp6s0", 20, "enp6s0.20"),
   AttachVlanToBridge("enp6s0.20", "br0")}

InitCtx ==
  /\ host = FreshHost
  /\ record_file = None
  /\ services = {}
  /\ topology = TopoS1
  /\ cmd = [name |-> "apply", commit |-> TRUE, confirm |-> 0, probe |-> None,
            execute |-> FALSE, table |-> None]
  /\ order = <<"nat_dev">>
  /\ pc = "context"
  /\ exit = "running"
  /\ validation_warnings = <<>>
  /\ conflict_report = <<>>
  /\ plan = <<>>
  /\ i = 0
  /\ context = Some(ExecutionContext_new)
  /\ rb_ops = <<>>
  /\ rb_i = 0
  /\ rb_attempted = <<>>
  /\ trigger = "none"
  /\ timer = "unarmed"
  /\ stdin = "idle"
  /\ probed = "none"
  /\ calls = <<>>
  /\ failed_at = 0
  /\ faults = 0
  /\ run = 1
  /\ host0 = host
  /\ prev_applied = None
  /\ diffs = <<>>
  /\ last_generated = None

CtxRecordAction ==
  /\ pc = "context"
  /\ Len(Unwrap(context).actions_completed) < MaxActions
  /\ \E action \in SampleActions :
       context' = Some(record_action(Unwrap(context), action))
  /\ UNCHANGED <<host, record_file, pc, exit, validation_warnings, conflict_report, plan,
                 i, calls, failed_at, faults>>
  /\ UNCHANGED <<rbVars, waitVars, fixedVars>>

CtxRecordNftSnapshot ==
  /\ pc = "context"
  /\ \E table \in {"gw-nat", "gw-lab"}, snapshot \in {None, Some(SampleSnapshot)} :
       context' = Some(record_nft_snapshot(Unwrap(context), table, snapshot))
  /\ UNCHANGED <<host, record_file, pc, exit, validation_warnings, conflict_report, plan,
                 i, calls, failed_at, faults>>
  /\ UNCHANGED <<rbVars, waitVars, fixedVars>>

CtxAttachPlan ==
  /\ pc = "context"
  /\ \E t \in {TopoS1, TopoBridge} : \E o \in Orders(t) :
       context' = Some(attach_plan(Unwrap(context), from_topology(t, o)))
  /\ UNCHANGED <<host, record_file, pc, exit, validation_warnings, conflict_report, plan,
                 i, calls, failed_at, faults>>
  /\ UNCHANGED <<rbVars, waitVars, fixedVars>>

NextCtx ==
  \/ CtxRecordAction
  \/ CtxRecordNftSnapshot
  \/ CtxAttachPlan

SpecCtx == InitCtx /\ [][NextCtx]_vars

\* ------------------------------------------------------------------------
\* Properties
\* ------------------------------------------------------------------------
\* C1: `net apply --commit` is atomic with respect to action failure: when an
\* action of the plan has failed and the command has terminated, nothing of the
\* actions completed before it persists, so the host is as it was at the start.
C1_ApplyAtomicOnActionFailure ==
  (pc = "done" /\ cmd.name = "apply" /\ cmd.commit /\ failed_at > 0) => host = host0

\* C2: when action k fails, no later action is dispatched, the error is returned,
\* and the ExecutionContext still exists, holding exactly the actions 1..k-1 of
\* the plan, so that the caller can reverse them.
C2_ContextKeepsCompletedPrefix ==
  failed_at > 0 =>
    /\ pc = "done"
    /\ exit = "err"
    /\ i = failed_at
    /\ IsSome(context)
    /\ Unwrap(context).actions_completed = SubSeq(plan, 1, failed_at - 1)

\* C3: rollback_operations() walks actions_completed from last to first and
\* emits exactly one op per action, none for EnableForwarding and
\* AttachVlanToBridge: op j undoes the j-th last action that has an undo, with
\* that action's name, iface/addr, table and recorded snapshot, or path.
C3_RollbackOpsReverseCompletion ==
  IsSome(context) =>
    LET ctx == Unwrap(context)
        acts == ctx.actions_completed
        ops == rollback_operations(ctx)
        undone == {k \in 1..Len(acts) :
                     acts[k].kind \notin {"EnableForwarding", "AttachVlanToBridge"}}
        source(j) == CHOOSE k \in undone : Cardinality({m \in undone : m > k}) = j - 1
        expected(a) ==
          CASE a.kind = "CreateBridge" -> [op |-> "DeleteBridge", name |-> a.name]
            [] a.kind = "AddAddress" ->
                 [op |-> "RemoveAddress", iface |-> a.iface, addr |-> a.addr]
            [] a.kind = "CreateNftRuleset" ->
                 [op |-> "RestoreNft", table |-> a.table,
                  snapshot |-> IF a.table \in DOMAIN ctx.nft_snapshots
                               THEN ctx.nft_snapshots[a.table] ELSE <<>>]
            [] a.kind = "StartDnsmasq" -> [op |-> "DeleteDnsmasqConfig", path |-> a.config_path]
            [] a.kind = "CreateVlan" -> [op |-> "DeleteVlan", name |-> a.name]
    IN /\ Len(ops) = Cardinality(undone)
       /\ \A j \in 1..Len(ops) : ops[j] = expected(acts[source(j)])

\* a context of three actions, one of them without undo, another a
\* CreateNftRuleset whose table has no recorded snapshot
C3_Witness ==
  /\ pc = "context"
  /\ Len(Unwrap(context).actions_completed) = MaxActions
  /\ Len(rollback_operations(Unwrap(context))) = 2
  /\ \E k \in 1..2 :
       /\ rollback_operations(Unwrap(context))[k].op = "RestoreNft"
       /\ rollback_operations(Unwrap(context))[k].snapshot = None
       /\ Unwrap(context).nft_snapshots # <<>>

\* C4: the reversal attempts every op of rollback_operations(), in order, whether
\* or not ops fail, and returns success: its caller goes on to clear the record.
C4_RollbackBestEffort ==
  LET attempted == [k \in 1..Len(rb_attempted) |-> rb_attempted[k].op]
  IN /\ pc = "rollback" =>
          /\ rb_ops = rollback_operations(Unwrap(context))
          /\ attempted = SubSeq(rb_ops, 1, rb_i - 1)
     /\ pc = "rb_done" => attempted = rb_ops
     /\ (pc = "done" /\ trigger # "none") =>
          /\ attempted = rb_ops
          /\ calls # <<>>
          /\ calls[Len(calls)] = "clear_record"
          /\ exit = (IF cmd.name = "apply" THEN "err" ELSE "ok")

\* a finished reversal in which an op failed and a later op was still attempted
C4_Witness ==
  /\ pc = "done"
  /\ trigger # "none"
  /\ \E k \in 1..(Len(rb_attempted) - 1) : ~rb_attempted[k].ok

\* C5: with confirm > 0 the wait races the timer against a line on stdin: a line
\* first confirms and no reversal runs; the timer first runs the reversal and the
\* command exits non-zero; with confirm = 0 no timer is armed and the applied
\* configuration is kept.
C5_ConfirmationRace ==
  /\ stdin = "line" =>
       /\ pc = "done" /\ exit = "ok"
       /\ trigger = "none" /\ rb_attempted = <<>>
       /\ timer = "dropped"
  /\ timer = "fired" =>
       /\ trigger = "unconfirmed"
       /\ stdin = "reading"
       /\ pc \in {"rollback", "rb_done", "done"}
       /\ pc = "done" => (exit = "err" /\ Len(rb_attempted) = Len(rb_ops))
  /\ timer # "unarmed" => (cmd.name = "apply" /\ cmd.confirm > 0)
  /\ (cmd.name = "apply" /\ cmd.confirm = 0) =>
       /\ trigger \in {"none", "probe"}
       /\ (/\ pc = "done"
           /\ IsSome(record_file)
           /\ Unwrap(record_file).v.created_at.v = run
           /\ probed \in {"none", "connected"}) => (exit = "ok" /\ trigger = "none")

\* the timer fired first: the reversal ran and the command ended non-zero
C5_Witness ==
  /\ pc = "done"
  /\ timer = "fired"
  /\ exit = "err"
  /\ rb_attempted # <<>>

C7_NoRecordAfterArmedApply ==
  (pc = "done" /\ cmd.name = "apply" /\ timer # "unarmed") => record_file = None

\* C8: during `net apply` no mutating capability call and no record write happens
\* unless --commit was given and no warning is of an error class; advisory
\* warnings alone do not stop a committed apply.
C8_NoMutationWithoutValidCommit ==
  LET error_class == {"InvalidPort", "InvalidDestination", "InvalidCidr", "GatewayNotInCidr"}
      has_error == \E k \in 1..Len(validation_warnings) :
                     validation_warnings[k].kind \in error_class
  IN cmd.name = "apply" =>
       /\ calls # <<>> => (cmd.commit /\ ~has_error)
       /\ calls = <<>> => host = host0
       /\ has_error => (pc = "done" /\ exit = "err")
       /\ (pc = "done" /\ cmd.commit /\ validation_warnings # <<>> /\ ~has_error)
            => calls # <<>>

\* a committed apply that went on to mutate the host with an advisory warning
C8_Witness ==
  /\ cmd.name = "apply"
  /\ pc = "done"
  /\ validation_warnings # <<>>
  /\ calls # <<>>

\* C9: with an error-severity conflict (UFW or firewalld active) no plan action
\* is executed, --commit or not.
C9_ErrorConflictBlocksApply ==
  (cmd.name = "apply" /\ has_errors(detect_all(services))) => calls = <<>>

\* C10: an apply --commit directly after a kept apply --commit of the same
\* topology of routed networks, nothing failing from outside, re-adds the
\* addresses already present as a no-op, completes without error, leaves the
\* host as the first left it, and records as nft snapshot what the first installed.
C10_ReapplyIdempotent ==
  (/\ IsSome(prev_applied) /\ cmd.name = "apply" /\ cmd.commit /\ faults = 0
   /\ \A n \in DOMAIN topology.networks : topology.networks[n].type = "routed") =>
    /\ (pc = "done" /\ trigger = "none") => (exit = "ok" /\ host = Unwrap(prev_applied))
    /\ IsSome(context) =>
         \A t \in DOMAIN Unwrap(context).nft_snapshots :
           Unwrap(context).nft_snapshots[t] = snapshot_table(Unwrap(prev_applied), t)

\* C11: a context turned into a record and back, directly or through the JSON
\* document save_record writes and load_record reads, has the same
\* actions_completed, nft_snapshots (keys mapped to None included) and plan, and
\* so the same rollback_operations().
C11_RecordRoundTrip ==
  IsSome(context) =>
    LET same(c, d) ==
          /\ d.actions_completed = c.actions_completed
          /\ DOMAIN d.nft_snapshots = DOMAIN c.nft_snapshots
          /\ \A t \in DOMAIN c.nft_snapshots : d.nft_snapshots[t] = c.nft_snapshots[t]
          /\ d.plan = c.plan
          /\ rollback_operations(d) = rollback_operations(c)
        through(c, loaded) ==
          /\ IsOk(loaded)
          /\ IsSome(loaded.val)
          /\ same(c, from_rollback_record(Unwrap(loaded.val)))
    IN /\ same(Unwrap(context),
               from_rollback_record(to_rollback_record(Unwrap(context), run)))
       /\ through(Unwrap(context),
                  load_record(Some(save_record(to_rollback_record(Unwrap(context), run)))))

\* a context with a plan attached, a table whose snapshot is None, a CreateVlan
\* and a CreateBridge without cidr among its actions and in its plan
C11_Witness ==
  /\ pc = "context"
  /\ IsSome(Unwrap(context).plan)
  /\ \E t \in DOMAIN Unwrap(context).nft_snapshots : Unwrap(context).nft_snapshots[t] = None
  /\ \E k \in 1..Len(Unwrap(context).actions_completed) :
       Unwrap(context).actions_completed[k].kind = "CreateVlan"
  /\ \E k \in 1..Len(Unwrap(Unwrap(context).plan)) :
       /\ Unwrap(Unwrap(context).plan)[k].kind = "CreateBridge"
       /\ Unwrap(Unwrap(context).plan)[k].cidr = None

\* C12: a record on disk with a field the RollbackRecord schema does not know is
\* refused: load_record fails, net rollback ends with an error and no reversal
\* op is attempted.
C12_UnknownFieldFailsClosed ==
  (cmd.name = "rollback" /\ record_file = Some(ForeignRecord)) =>
    /\ rb_attempted = <<>>
    /\ pc \in {"start", "done"}
    /\ pc = "done" => exit = "err"

\* C13: when the write of the rollback record fails after every plan action
\* succeeded, the apply does not end with an error because of it.
C13_SaveFailureIsWarning ==
  (/\ cmd.name = "apply"
   /\ calls # <<>>
   /\ calls[Len(calls)] = "save_record"
   /\ ~(IsSome(record_file) /\ Unwrap(record_file).v.created_at.v = run)) =>
    ~(pc = "done" /\ exit = "err")

\* C14: for every routed network N the plan holds, next to one another and in
\* this order, CreateBridge{br-N, cidr}, AddAddress on br-N, EnableForwarding{br-N},
\* CreateNftRuleset{gw-N, policy_profile}, and then StartDnsmasq with
\* /etc/dnsmasq.d/gw-N.conf exactly when dhcp is set; the plan has no other
\* StartDnsmasq for N.
C14_RoutedNetworkPlanShape ==
  LET dnsmasq(N) == [kind |-> "StartDnsmasq",
                     config_path |-> "/etc/dnsmasq.d/gw-" \o N \o ".conf"]
      block(N, network, k) ==
        /\ k + 3 <= Len(plan)
        /\ plan[k] = [kind |-> "CreateBridge", name |-> "br-" \o N,
                      cidr |-> Some(network.cidr)]
        /\ plan[k + 1].kind = "AddAddress"
        /\ plan[k + 1].iface = "br-" \o N
        /\ plan[k + 2] = [kind |-> "EnableForwarding", iface |-> "br-" \o N]
        /\ plan[k + 3] = [kind |-> "CreateNftRuleset", table |-> "gw-" \o N,
                          policy_profile |-> network.policy_profile]
        /\ network.dhcp => k + 4 <= Len(plan) /\ plan[k + 4] = dnsmasq(N)
        /\ ~network.dhcp => \A m \in 1..Len(plan) : plan[m] # dnsmasq(N)
  IN pc \in {"done", "diff"} /\ plan # <<>> =>
       \A N \in DOMAIN topology.networks :
         topology.networks[N].type = "routed" =>
           \E k \in 1..Len(plan) : block(N, topology.networks[N], k)

\* C14 witness: a dry run has planned a routed network that has no dhcp and is
\* bound to a policy profile
C14_Witness ==
  /\ pc = "done"
  /\ cmd.name = "apply"
  /\ plan # <<>>
  /\ \E N \in DOMAIN topology.networks :
       /\ topology.networks[N].type = "routed"
       /\ ~topology.networks[N].dhcp
       /\ IsSome(topology.networks[N].policy_profile)

\* C15: every action on an interface the plan itself creates comes after the
\* action that creates it: AddAddress and EnableForwarding after the CreateBridge
\* of their bridge, AttachVlanToBridge after the CreateVlan of its VLAN and
\* after the CreateBridge of its bridge.
C15_DependenciesPrecedeDependents ==
  LET creates(m, iface) ==
        \/ plan[m].kind = "CreateBridge" /\ plan[m].name = iface
        \/ plan[m].kind = "CreateVlan" /\ plan[m].name = iface
      created_in_plan(iface) == \E m \in 1..Len(plan) : creates(m, iface)
      uses(k) ==
        CASE plan[k].kind \in {"AddAddress", "EnableForwarding"} -> {plan[k].iface}
          [] plan[k].kind = "AttachVlanToBridge" -> {plan[k].vlan, plan[k].bridge}
          [] OTHER -> {}
  IN pc \in {"done", "diff"} =>
       \A k \in 1..Len(plan) :
         \A iface \in uses(k) :
           created_in_plan(iface) => \E m \in 1..(k - 1) : creates(m, iface)

\* C16: the statements of a synthesised ruleset are, in this order: flush table,
\* table, the chains input, forward, output, postrouting, prerouting, ct-state
\* accept on input and on forward, loopback accept on input; if a profile is
\* bound, one input rule per service, one input rule per allowed_ingress_cidr
\* and one forward rule per allowed_egress_cidr, each list as declared; one
\* masquerade rule on postrouting iff masq_out is not empty; per port forward,
\* as declared, one DNAT rule on prerouting and one SNAT rule to the gateway on
\* postrouting.
C16_StatementOrder ==
  LET last(e) == e[Len(e)]
      text(match) ==
        IF match.right.j = "object"
        THEN match.left.v.payload.v.field.v \o " " \o match.right.v.prefix.v.addr.v
             \o "/" \o IntToStr(match.right.v.prefix.v.len.v)
        ELSE IF match.right.j = "number" THEN IntToStr(match.right.v)
        ELSE match.right.v
      matches(e) ==
        [k \in 1..(Len(e) - 2) |-> " " \o text(e[k + 1].v.match.v)]
      joined(words) ==
        LET RECURSIVE cat(_)
            cat(k) == IF k > Len(words) THEN "" ELSE words[k] \o cat(k + 1)
        IN cat(1)
      accepting(chain, e) ==
        IF "ct" \in DOMAIN e[1].v.match.v.left.v THEN "ct-state accept " \o chain
        ELSE IF e[1].v.match.v.right.v = "lo" THEN "loopback accept " \o chain
        ELSE "accept " \o chain \o " from " \o e[1].v.match.v.right.v \o joined(matches(e))
      rule(chain, e) ==
        IF "dnat" \in DOMAIN last(e).v
        THEN "dnat " \o chain \o " to " \o last(e).v.dnat.v.addr.v \o ":"
             \o IntToStr(last(e).v.dnat.v.port.v)
        ELSE IF "snat" \in DOMAIN last(e).v
        THEN "snat " \o chain \o " to " \o last(e).v.snat.v.addr.v
        ELSE IF "masquerade" \in DOMAIN last(e).v THEN "masquerade " \o chain
        ELSE IF "accept" \in DOMAIN last(e).v THEN accepting(chain, e)
        ELSE "other"
      sig(st) ==
        IF "flush" \in DOMAIN st.v THEN "flush table"
        ELSE IF "table" \in DOMAIN st.v THEN "table"
        ELSE IF "chain" \in DOMAIN st.v THEN "chain " \o st.v.chain.v.name.v
        ELSE IF "rule" \in DOMAIN st.v
        THEN rule(st.v.rule.v.chain.v, st.v.rule.v.expr.v)
        ELSE "other"
      service(bridge, s) ==
        "accept input from " \o bridge \o " " \o s.protocol
        \o (IF s.protocol = "icmp" THEN "" ELSE " " \o IntToStr(s.port))
        \o (IF IsSome(s.source) THEN " saddr " \o Unwrap(s.source) ELSE "")
      policy_block(bridge, p) ==
        [k \in 1..Len(p.services) |-> service(bridge, p.services[k])]
        \o [k \in 1..Len(p.allowed_ingress_cidrs) |->
              "accept input from " \o bridge \o " saddr " \o p.allowed_ingress_cidrs[k]]
        \o [k \in 1..Len(p.allowed_egress_cidrs) |->
              "accept forward from " \o bridge \o " daddr " \o p.allowed_egress_cidrs[k]]
      expected(g, network) ==
        <<"flush table", "table", "chain input", "chain forward", "chain output",
          "chain postrouting", "chain prerouting", "ct-state accept input",
          "ct-state accept forward", "loopback accept input">>
        \o (IF IsSome(g.policy_loaded)
            THEN policy_block("br-" \o g.network, LoadedProfiles[Unwrap(g.policy_loaded)])
            ELSE <<>>)
        \o (IF Unwrap(network.masq_out) # "" THEN <<"masquerade postrouting">> ELSE <<>>)
        \o Flatten([k \in 1..Len(network.forwards) |->
                      <<"dnat prerouting to " \o network.forwards[k].dst,
                        "snat postrouting to " \o network.gw_ip>>])
      emitted(statements) == [k \in 1..Len(statements) |-> sig(statements[k])]
      as_claimed(g) ==
        emitted(g.ruleset.value.v.nftables.v) = expected(g, topology.networks[g.network])
  IN IsSome(last_generated) => as_claimed(Unwrap(last_generated))

\* C16 witness: net diff has synthesised the ruleset of a network with two
\* forwards that is bound to the profile with three services, two ingress and
\* two egress cidrs
C16_Witness ==
  /\ pc = "done"
  /\ cmd.name = "diff"
  /\ IsSome(last_generated)
  /\ Unwrap(last_generated).policy_loaded = Some("sealed")
  /\ Len(topology.networks[Unwrap(last_generated).network].forwards) = 2

\* C17: in a synthesised ruleset the base chains input and forward carry the
\* policy "accept" for a bound profile with default_action accept and "drop" for
\* default_action drop and for default_action reject; output, postrouting and
\* prerouting carry "accept" whatever the profile; no rule has a reject verdict.
C17_DefaultPolicyMapping ==
  LET mapped(default_action) ==
        CASE default_action = "accept" -> "accept"
          [] default_action = "drop" -> "drop"
          [] default_action = "reject" -> "drop"
      chain_policy(statements, name) ==
        {statements[k].v.chain.v.policy.v :
           k \in {m \in 1..Len(statements) :
                    /\ "chain" \in DOMAIN statements[m].v
                    /\ statements[m].v.chain.v.name.v = name}}
      rejects(st) ==
        /\ "rule" \in DOMAIN st.v
        /\ \E k \in 1..Len(st.v.rule.v.expr.v) : "reject" \in DOMAIN st.v.rule.v.expr.v[k].v
      as_claimed(g, statements) ==
        /\ IsSome(g.policy_loaded) =>
             \A name \in {"input", "forward"} :
               chain_policy(statements, name)
                 = {mapped(LoadedProfiles[Unwrap(g.policy_loaded)].default_action)}
        /\ \A name \in {"output", "postrouting", "prerouting"} :
             chain_policy(statements, name) = {"accept"}
        /\ \A k \in 1..Len(statements) : ~rejects(statements[k])
  IN IsSome(last_generated) =>
       as_claimed(Unwrap(last_generated), Unwrap(last_generated).ruleset.value.v.nftables.v)

\* C17 witness: a ruleset was synthesised for a network bound to a profile whose
\* default_action is reject
C17_Witness ==
  /\ IsSome(last_generated)
  /\ IsSome(Unwrap(last_generated).policy_loaded)
  /\ LoadedProfiles[Unwrap(Unwrap(last_generated).policy_loaded)].default_action = "reject"

\* C18: the NftDiff that diff_ruleset returns for a table has matches = TRUE
\* exactly when the table exists on the host and its listing, re-emitted in
\* pretty form, equals the desired ruleset re-emitted in pretty form; otherwise
\* it has matches = FALSE and a diff text, with current_exists telling whether
\* the table exists; and a net diff leaves the host as it found it.
C18_DiffIdentity ==
  LET pretty(value) == to_string_pretty(value, "", "", "")
      in_sync(table, desired) ==
        /\ table \in DOMAIN host.nft
        /\ pretty(host.nft[table]) = pretty(desired)
      as_claimed(d, desired) ==
        /\ d.matches <=> in_sync(d.table, desired)
        /\ ~d.matches => IsSome(d.diff) /\ (d.current_exists <=> d.table \in DOMAIN host.nft)
        /\ d.matches => d.current_exists
      compared(d, g) == d.table = "gw-" \o g.network => as_claimed(d, g.ruleset.value)
  IN cmd.name = "diff" =>
       /\ host = host0
       /\ \A k \in 1..Len(calls) : calls[k] = "snapshot_table"
       /\ diffs # <<>> => compared(diffs[Len(diffs)], Unwrap(last_generated))

\* C18 witness: net diff has compared a synthesised ruleset in pretty layout with
\* a table whose listing denotes the same document, and found them to match
C18_Witness ==
  /\ cmd.name = "diff"
  /\ pc = "done"
  /\ exit = "ok"
  /\ diffs # <<>>
  /\ diffs[1].matches
  /\ diffs[1].current_exists
  /\ diffs[1].diff = None
  /\ Unwrap(last_generated).ruleset.layout = "pretty"

\* C19: when the table on the host is the synthesised ruleset less one of its
\* DNAT rules, the NftDiff has matches = FALSE and current_exists = TRUE and its
\* diff text has a line marked '-' that belongs to the removed DNAT rule.
C19_RemovedDnatShownAsMinus ==
  LET is_dnat(st) ==
        /\ "rule" \in DOMAIN st.v
        /\ \E k \in 1..Len(st.v.rule.v.expr.v) : "dnat" \in DOMAIN st.v.rule.v.expr.v[k].v
      less(items, at) ==
        [k \in 1..(Len(items) - 1) |-> IF k < at THEN items[k] ELSE items[k + 1]]
      drifted(live, want) ==
        \E at \in 1..Len(want) : is_dnat(want[at]) /\ live = less(want, at)
      minus_dnat(lines) ==
        \E k \in 1..Len(lines) :
          SubSeq(lines[k], 1, 1) = "-" /\ Contains(lines[k], "dnat")
      as_claimed(d) == ~d.matches /\ d.current_exists /\ IsSome(d.diff) /\ minus_dnat(Unwrap(d.diff))
      compared(d, g) ==
        /\ d.table = "gw-" \o g.network
        /\ d.table \in DOMAIN host.nft
        /\ drifted(host.nft[d.table].v.nftables.v, g.ruleset.value.v.nftables.v)
        => as_claimed(d)
  IN cmd.name = "diff" /\ diffs # <<>> => compared(diffs[Len(diffs)], Unwrap(last_generated))

\* C20: validation does not panic, and for every routed network with an IPv4
\* gateway and an IPv4 cidr of prefix 0..32 it reports GatewayNotInCidr exactly
\* when the gateway and the network address differ in one of their top `prefix`
\* bits (for /0 they never do).
C20_GatewayInsideCidr ==
  LET hi(ip) == ip[1] * 256 + ip[2]
      lo(ip) == ip[3] * 256 + ip[4]
      same_top_bits(a, b, prefix) ==
        IF prefix <= 16
        THEN hi(a) \div (2 ^ (16 - prefix)) = hi(b) \div (2 ^ (16 - prefix))
        ELSE hi(a) = hi(b) /\ lo(a) \div (2 ^ (32 - prefix)) = lo(b) \div (2 ^ (32 - prefix))
      reported(N) ==
        \E k \in 1..Len(validation_warnings) :
          /\ validation_warnings[k].kind = "GatewayNotInCidr"
          /\ validation_warnings[k].network = N
      judged(N, gw, net, prefix) ==
        gw # <<>> /\ net # <<>> /\ prefix \in 0..32 =>
          (reported(N) <=> ~same_top_bits(gw, net, prefix))
      checked_network(N, network, parts) ==
        Len(parts) = 2 =>
          judged(N, ParseIpv4(network.gw_ip), ParseIpv4(parts[1]), ParseU8(parts[2]))
      reports ==
        \A N \in DOMAIN topology.networks :
          topology.networks[N].type = "routed" =>
            checked_network(N, topology.networks[N], Split(topology.networks[N].cidr, "/"))
  IN cmd.name = "apply" /\ pc # "start" =>
       /\ exit # "panic"
       /\ ~(exit = "err" /\ validation_warnings = <<>>) => reports

\* C21: validation does not panic, and for every pair of routed networks with
\* IPv4 cidrs of prefix 0..32 it reports exactly one CidrOverlap when the two
\* network addresses agree in their top min(prefix) bits and none otherwise,
\* whatever the order in which the networks are taken; a topology whose only
\* warnings are CidrOverlap is not refused.
C21_CidrOverlapVerdict ==
  LET hi(ip) == ip[1] * 256 + ip[2]
      lo(ip) == ip[3] * 256 + ip[4]
      same_top_bits(a, b, prefix) ==
        IF prefix <= 16
        THEN hi(a) \div (2 ^ (16 - prefix)) = hi(b) \div (2 ^ (16 - prefix))
        ELSE hi(a) = hi(b) /\ lo(a) \div (2 ^ (32 - prefix)) = lo(b) \div (2 ^ (32 - prefix))
      min(x, y) == IF x <= y THEN x ELSE y
      reports(A, B) ==
        {k \in 1..Len(validation_warnings) :
           /\ validation_warnings[k].kind = "CidrOverlap"
           /\ {validation_warnings[k].net1, validation_warnings[k].net2} = {A, B}}
      judged(A, B, a, pa, b, pb) ==
        a # <<>> /\ b # <<>> /\ pa \in 0..32 /\ pb \in 0..32 =>
          Cardinality(reports(A, B)) = IF same_top_bits(a, b, min(pa, pb)) THEN 1 ELSE 0
      parted(A, B, pa, pb) ==
        Len(pa) = 2 /\ Len(pb) = 2 =>
          judged(A, B, ParseIpv4(pa[1]), ParseU8(pa[2]), ParseIpv4(pb[1]), ParseU8(pb[2]))
      routed == {N \in DOMAIN topology.networks : topology.networks[N].type = "routed"}
      verdicts ==
        \A A \in routed : \A B \in routed \ {A} :
          parted(A, B, Split(topology.networks[A].cidr, "/"),
                 Split(topology.networks[B].cidr, "/"))
      only_overlaps ==
        \A k \in 1..Len(validation_warnings) : validation_warnings[k].kind = "CidrOverlap"
  IN cmd.name = "apply" /\ pc # "start" =>
       /\ exit # "panic"
       /\ ~(exit = "err" /\ validation_warnings = <<>>) => verdicts
       /\ validation_warnings # <<>> /\ only_overlaps => ~(pc = "done" /\ exit = "err")

\* C22: for a routed network whose policy_profile names a profile that is not
\* loaded, ruleset generation does not fail: the generated ruleset has
\* policy_missing set to that name, policy_loaded unset, and is the ruleset of
\* the same network with no policy bound; neither the plan of a dry run nor a
\* net diff ends in an error because of it.
C22_UnknownProfileNotFatal ==
  LET unknown(N) ==
        /\ topology.networks[N].type = "routed"
        /\ IsSome(topology.networks[N].policy_profile)
        /\ Unwrap(topology.networks[N].policy_profile) \notin DOMAIN LoadedProfiles
      unbound(N) ==
        [topology EXCEPT !.networks =
           [n \in DOMAIN topology.networks |->
              IF n = N THEN [topology.networks[n] EXCEPT !.policy_profile = None]
              ELSE topology.networks[n]]]
      as_claimed(g) ==
        /\ g.policy_missing = topology.networks[g.network].policy_profile
        /\ g.policy_loaded = None
        /\ Ok(Some([g EXCEPT !.policy_missing = None]))
             = generate_ruleset(unbound(g.network), order, "gw-" \o g.network, LoadedProfiles)
  IN (\E N \in DOMAIN topology.networks : unknown(N)) =>
       /\ pc = "done" /\ faults = 0 => exit = "ok"
       /\ IsSome(last_generated) /\ unknown(Unwrap(last_generated).network) =>
            as_claimed(Unwrap(last_generated))

\* C22 witness: net diff has compared the ruleset of a network whose profile is
\* not loaded and has ended without error
C22_Witness ==
  /\ cmd.name = "diff"
  /\ pc = "done"
  /\ exit = "ok"
  /\ diffs # <<>>
  /\ IsSome(Unwrap(last_generated).policy_missing)
  /\ Unwrap(Unwrap(last_generated).policy_missing) \notin DOMAIN LoadedProfiles

\* C23: at every point of an apply, the tables that have a key in nft_snapshots
\* are the tables of the CreateNftRuleset actions in actions_completed, and the
\* value stored for a table is the listing the table had when this apply
\* started, before the apply replaced it (None if it did not exist); an action
\* whose snapshot or nft apply failed is in neither.
C23_SnapshotPerRecordedRuleset ==
  LET recorded(ctx) ==
        {ctx.actions_completed[k].table :
           k \in {m \in 1..Len(ctx.actions_completed) :
                    ctx.actions_completed[m].kind = "CreateNftRuleset"}}
      before(T) ==
        IF T \in DOMAIN host0.nft THEN Some([layout |-> "compact", value |-> host0.nft[T]])
        ELSE None
      failing(ctx, fault) ==
        ArmCreateNftRuleset(host, ctx, topology, order, plan[i], fault)
      unrecorded(ctx, o) == o.result # "ok" => o.context = ctx
      as_claimed(ctx) ==
        /\ DOMAIN ctx.nft_snapshots = recorded(ctx)
        /\ \A T \in recorded(ctx) : ctx.nft_snapshots[T] = before(T)
        /\ AtAction("CreateNftRuleset") =>
             \A fault \in 1..2 : unrecorded(ctx, failing(ctx, fault))
  IN cmd.name = "apply" /\ IsSome(context) => as_claimed(Unwrap(context))

\* C23 witness: an apply has replaced a table that existed and has recorded the
\* action with the table's earlier listing
C23_Witness ==
  /\ cmd.name = "apply"
  /\ IsSome(context)
  /\ \E T \in DOMAIN Unwrap(context).nft_snapshots :
       /\ Unwrap(context).nft_snapshots[T] # None
       /\ T \in DOMAIN host.nft
       /\ host.nft[T] # host0.nft[T]

\* C24: when the execution loop of an apply ends and no capability call has
\* failed, actions_completed equals the plan's actions, in plan order.
C24_EveryActionRecorded ==
  cmd.name = "apply" /\ pc = "save" /\ faults = 0 =>
    Unwrap(context).actions_completed = plan

\* C25: for every routed network N the AddAddress action of the plan carries the
\* gateway address of N with the prefix length of N's cidr (10.33.0.1/24 for
\* cidr 10.33.0.0/24 and gw_ip 10.33.0.1).
C25_AddAddressIsGatewayWithPrefix ==
  LET expected(network, parts) == network.gw_ip \o "/" \o parts[Len(parts)]
      as_claimed(N, network) ==
        \A k \in 1..Len(plan) :
          plan[k].kind = "AddAddress" /\ plan[k].iface = "br-" \o N =>
            plan[k].addr = expected(network, Split(network.cidr, "/"))
  IN pc \in {"done", "diff"} /\ plan # <<>> =>
       \A N \in DOMAIN topology.networks :
         topology.networks[N].type = "routed" => as_claimed(N, topology.networks[N])

\* C26: when validation has reported no error-class warning, the
\* CreateNftRuleset arm of every such action of the plan runs to its end if no
\* capability call fails: the synthesis of the ruleset does not fail on a
\* forward spec the validator accepted.
C26_ValidatedForwardsSynthesise ==
  LET arm(action) ==
        ArmCreateNftRuleset(host, ExecutionContext_new, topology, order, action, 0)
      validated ==
        /\ cmd.name = "apply"
        /\ pc \in {"conflicts", "plan", "done"}
        /\ exit \in {"running", "ok"}
  IN validated =>
       \A action \in SeqRange(from_topology(topology, order)) :
         action.kind = "CreateNftRuleset" => arm(action).result = "ok"

\* C27: a link that existed when an apply started is not deleted by that apply
\* or by its reversal (after a failed probe or an unconfirmed wait), also when
\* the plan has a CreateBridge action of that name.
C27_ReversalKeepsExistingBridge ==
  LET planned(name) ==
        \E k \in 1..Len(plan) : plan[k].kind = "CreateBridge" /\ plan[k].name = name
  IN cmd.name = "apply" =>
       \A name \in host0.links : planned(name) => name \in host.links

\* C28: when the CreateBridge arm of a routed network N's bridge br-N ends
\* without error, br-N holds the address gw_ip(N)/prefix(N), also when another
\* routed network of the topology has the same cidr string.
C28_BridgeGetsOwnGateway ==
  LET out == ArmCreateBridge(host, Unwrap(context), topology, order, plan[i], 0)
      owners == {N \in DOMAIN topology.networks :
                   /\ topology.networks[N].type = "routed"
                   /\ "br-" \o N = plan[i].name}
      own(N) == <<plan[i].name,
                  ParseIpAddr(topology.networks[N].gw_ip),
                  ParseU8(Split(topology.networks[N].cidr, "/")[2])>>
  IN AtAction("CreateBridge") /\ plan[i].cidr # None /\ out.result = "ok" =>
       \A N \in owners : own(N) \in out.host.addrs

\* C29: when the StartDnsmasq arm of /etc/dnsmasq.d/gw-N.conf of a routed
\* network N with dhcp set ends without error, the configuration written to that
\* path is the one generated from N: interface br-N, N's cidr and N's DNS zones,
\* also when the name of another network occurs in the path.
C29_DnsmasqConfigOfOwnNetwork ==
  LET path == plan[i].config_path
      out == ArmStartDnsmasq(host, Unwrap(context), topology, order, plan[i], 0)
      owners == {N \in DOMAIN topology.networks :
                   /\ topology.networks[N].type = "routed"
                   /\ topology.networks[N].dhcp
                   /\ "/etc/dnsmasq.d/gw-" \o N \o ".conf" = path}
      zones(N) == IF IsSome(topology.networks[N].dns)
                  THEN Unwrap(topology.networks[N].dns).zones
                  ELSE <<>>
      own(N) == generate_config("br-" \o N, topology.networks[N].cidr, zones(N))
  IN AtAction("StartDnsmasq") /\ out.result = "ok" =>
       \A N \in owners :
         /\ path \in DOMAIN out.host.dnsmasq
         /\ IsOk(own(N))
         /\ out.host.dnsmasq[path] = own(N).val

\* C30: the reversal for want of a confirmation starts only after the timer of
\* wait_for_confirmation has fired: in an apply whose reversal was triggered by an
\* unconfirmed wait the timeout has elapsed, also when standard input was closed
\* with no line.
C30_ReversalOnlyAfterTimerFires ==
  cmd.name = "apply" /\ trigger = "unconfirmed" => timer = "fired"

====
